---- MODULE Spec2Model ----
(***************************************************************************)
(* Model of the configuration-driven scraper of                            *)
(* src/scrapers/universal-scraper.py: the batch orchestrator               *)
(* (scrape_all_sources), the strategy dispatch (scrape_source) and the     *)
(* four strategy executors, run against a fixed set of web pages, feeds    *)
(* and calendar files.                                                     *)
(*                                                                         *)
(* Python strings are TLA+ strings (Len, \o and SubSeq act on them).       *)
(* A dict key that is missing is the value Absent.  datetime values        *)
(* (scrape_timestamp, scraped_at, timestamp) are left out of the records.  *)
(*                                                                         *)
(* Every configured source carries id, name and category; its strategy,    *)
(* its URL key and each of its selectors may be missing.  The web is       *)
(* fixed: a source fails or succeeds by the URL it points at.              *)
(*                                                                         *)
(* Spec runs scrape_all_sources; RepeatSpec calls it again and again on    *)
(* one scraper; FairSpec is Spec with the loop running to its end.         *)
(* VideoSpec runs VideoProcessor.process_video and MonitorSpec runs        *)
(* EmergencyAlertMonitor.check_all_feeds.  HelperSpec calls the helpers on *)
(* their own: download_ics, urljoin, save_debug_html, and resolve_url of   *)
(* src/scrapers/emergency-alert-monitor.py.  An OSError of os.makedirs     *)
(* leaves save_debug_html and is caught by scrape_list's outer handler,    *)
(* which returns the same empty list, so Spec records the call only.       *)
(***************************************************************************)
EXTENDS Integers, Sequences, FiniteSets, TLC

VARIABLES
    config,             \* self.config['sources']: the loaded source list
    pc,                 \* position in scrape_all_sources: idle, loop, done
    source_ids,         \* the argument of the running call (NoFilter = None)
    sources_to_scrape,  \* the list the for loop walks
    idx,                \* index of the next source of the for loop
    results,            \* the report under construction / returned
    fetch_log,          \* every session.get and feedparser.parse issued
    debug_calls,        \* every save_debug_html call: <<source id, html_content>>
    applied,            \* the helper called on its own: op, args, result
    earlier,            \* the call before the running one: argument, report, logs
    load_status         \* how load_config found the configuration file

vars == <<config, pc, source_ids, sources_to_scrape, idx, results,
          fetch_log, debug_calls, applied, earlier, load_status>>

----------------------------------------------------------------------------
(* Python string and list primitives *)

Min(a, b) == IF a < b THEN a ELSE b

\* s[:n]
Take(s, n) == SubSeq(s, 1, Min(n, Len(s)))

\* s[n:]
Drop(s, n) == SubSeq(s, Min(n, Len(s)) + 1, Len(s))

\* sub in s
Contains(sub, s) ==
    \E i \in 1..(Len(s) - Len(sub) + 1) : SubSeq(s, i, i + Len(sub) - 1) = sub

\* s.startswith(p)
StartsWith(s, p) == Len(p) <= Len(s) /\ SubSeq(s, 1, Len(p)) = p

\* s.endswith(p)
EndsWith(s, p) ==
    Len(p) <= Len(s) /\ SubSeq(s, Len(s) - Len(p) + 1, Len(s)) = p

UpperChars == "ABCDEFGHIJKLMNOPQRSTUVWXYZ"
LowerChars == "abcdefghijklmnopqrstuvwxyz"

UpperSet == {SubSeq(UpperChars, i, i) : i \in 1..Len(UpperChars)}

LowerChar(c) ==
    IF c \in UpperSet
    THEN LET i == CHOOSE j \in 1..Len(UpperChars) : SubSeq(UpperChars, j, j) = c
         IN  SubSeq(LowerChars, i, i)
    ELSE c

\* s.lower()
RECURSIVE Lower(_)
Lower(s) ==
    IF Len(s) = 0 THEN s
    ELSE LowerChar(SubSeq(s, 1, 1)) \o Lower(SubSeq(s, 2, Len(s)))

\* index of the first occurrence of the one-character string c in s, 0 if none
FirstIndex(c, s) ==
    LET at == {i \in 1..Len(s) : SubSeq(s, i, i) = c}
    IN  IF at = {} THEN 0 ELSE CHOOSE i \in at : \A j \in at : i <= j

\* index of the last occurrence of the one-character string c in s, 0 if none
LastIndex(c, s) ==
    LET at == {i \in 1..Len(s) : SubSeq(s, i, i) = c}
    IN  IF at = {} THEN 0 ELSE CHOOSE i \in at : \A j \in at : j <= i

\* the string made of n copies of s
RECURSIVE Rep(_, _)
Rep(s, n) ==
    IF n = 0 THEN ""
    ELSE IF n % 2 = 0 THEN LET half == Rep(s, n \div 2) IN half \o half
    ELSE s \o Rep(s, n - 1)

\* the list whose i-th member is pattern[i], cycling through pattern
Cycle(pattern, n) == [i \in 1..n |-> pattern[((i - 1) % Len(pattern)) + 1]]

\* a key that is not in a dict
Absent == "<absent>"

\* scrape_all_sources has not returned yet on this scraper
NoEarlier ==
    [any |-> FALSE, asked |-> [given |-> FALSE, ids |-> <<>>],
     report |-> [sources_scraped |-> <<>>, total_items |-> 0, errors |-> <<>>],
     fetch_log |-> <<>>, captures |-> <<>>]

----------------------------------------------------------------------------
(* urllib.parse.urljoin for the references the pages of the model hold:    *)
(* no query, no fragment, no dot segment.                                  *)

\* the index of the ":" that ends the scheme of u, 0 if u has no scheme
SchemeEnd(u) ==
    IF FirstIndex(":", u) > 1
       /\ (FirstIndex("/", u) = 0 \/ FirstIndex(":", u) < FirstIndex("/", u))
    THEN FirstIndex(":", u)
    ELSE 0

\* the scheme of u, "" if u has none
UrlScheme(u) == Take(u, SchemeEnd(u) - 1)

\* u without "scheme:"
UrlAfterScheme(u) == Drop(u, SchemeEnd(u))

\* h up to its first "/"
BeforeSlash(h) ==
    IF FirstIndex("/", h) = 0 THEN h ELSE Take(h, FirstIndex("/", h) - 1)

\* h from its first "/" on
FromSlash(h) ==
    IF FirstIndex("/", h) = 0 THEN "" ELSE Drop(h, FirstIndex("/", h) - 1)

\* the network location of u, "" if u has none
UrlNetloc(u) ==
    IF StartsWith(UrlAfterScheme(u), "//")
    THEN BeforeSlash(Drop(UrlAfterScheme(u), 2))
    ELSE ""

\* the path of u
UrlPath(u) ==
    IF StartsWith(UrlAfterScheme(u), "//")
    THEN FromSlash(Drop(UrlAfterScheme(u), 2))
    ELSE UrlAfterScheme(u)

\* the path a relative reference is appended to
MergeDir(path) == IF path = "" THEN "/" ELSE Take(path, LastIndex("/", path))

\* Resolve that appends a relative reference to the whole path of the base
Resolve_NaiveJoin(scheme, netloc, path, ref) ==
    IF StartsWith(ref, "//") THEN scheme \o ":" \o ref
    ELSE IF StartsWith(ref, "/") THEN scheme \o "://" \o netloc \o ref
    ELSE scheme \o "://" \o netloc \o path \o "/" \o ref

\* the reference ref (with no scheme) against the parts of the base
Resolve(scheme, netloc, path, ref) ==
    IF StartsWith(ref, "//") THEN scheme \o ":" \o ref
    ELSE IF StartsWith(ref, "/") THEN scheme \o "://" \o netloc \o ref
    ELSE scheme \o "://" \o netloc \o MergeDir(path) \o ref

\* UrlJoin that resolves a reference with a scheme of its own as a path
UrlJoin_NoPassthrough(base, url) ==
    IF base = "" THEN url
    ELSE IF url = "" THEN base
    ELSE Resolve(UrlScheme(base), UrlNetloc(base), UrlPath(base), url)

UrlJoin(base, url) ==
    IF base = "" THEN url
    ELSE IF url = "" THEN base
    ELSE IF UrlScheme(url) \notin {"", UrlScheme(base)} THEN url
    ELSE Resolve(UrlScheme(base), UrlNetloc(base), UrlPath(base),
                 UrlAfterScheme(url))

----------------------------------------------------------------------------
(* EmergencyAlertMonitor.resolve_url of src/scrapers/emergency-alert-monitor.py *)

\* s.rstrip('/')
RECURSIVE RStripSlash(_)
RStripSlash(s) ==
    IF EndsWith(s, "/") THEN RStripSlash(Take(s, Len(s) - 1)) ELSE s

resolve_url(link, base_url) ==
    IF StartsWith(link, "http") THEN link
    ELSE IF StartsWith(link, "/")
         THEN UrlScheme(base_url) \o "://" \o UrlNetloc(base_url) \o link
    ELSE RStripSlash(base_url) \o "/" \o link

----------------------------------------------------------------------------
(* The web the scraper runs against: what session.get(url) followed by      *)
(* raise_for_status() and BeautifulSoup(response.content) give for each     *)
(* URL.  A page answers the selector queries the executors make on it.      *)

\* select_one found nothing
NoElem == [found |-> FALSE, text |-> "", href |-> ""]

\* an element select_one found: its stripped text and its href attribute
Elem(text, href) == [found |-> TRUE, text |-> text, href |-> href]

\* number of list elements of the long list page
BigLen == 22

\* length of the long element text
LongLen == 101

LongText == Rep("x", LongLen)

E_full  == [text |-> "Alpha story Jan 1", h3 |-> Elem("Alpha", ""),
            a |-> Elem("more", "/n/1"), span |-> Elem("Jan 1", "")]
E_blank == [text |-> "", h3 |-> Elem("", ""),
            a |-> Elem("", "/n/2"), span |-> NoElem]
E_bare  == [text |-> LongText, h3 |-> NoElem, a |-> NoElem, span |-> NoElem]
E_dead  == [text |-> "Gamma", h3 |-> Elem("Gamma", ""),
            a |-> Elem("Gamma", "/n/4"), span |-> NoElem]
E_nocal == [text |-> "Delta", h3 |-> NoElem,
            a |-> Elem("Delta", "/n/3"), span |-> Elem("Feb 2", "")]
E_badcal == [text |-> "Zeta", h3 |-> Elem("Zeta", ""),
             a |-> Elem("Zeta", "/n/5"), span |-> NoElem]
E_self  == [text |-> "Eps", h3 |-> Elem("Eps", ""),
            a |-> Elem("Eps", ""), span |-> NoElem]

\* length of the filler of the long calendar file
LongIcsLen == 2001

LongCalendar == "BEGIN:VCALENDAR" \o Rep("z", LongIcsLen)

\* a fetch that raises: transport error or non-success status
Failed == [ok |-> FALSE, ctype |-> "", text |-> "", li |-> <<>>, tr |-> <<>>,
           anchors |-> <<>>, links |-> <<>>, ics |-> NoElem]

Page(text, li, anchors, links, ics) ==
    [ok |-> TRUE, ctype |-> "text/html", text |-> text, li |-> li, tr |-> <<>>,
     anchors |-> anchors, links |-> links, ics |-> ics]

File(ctype, text) ==
    [ok |-> TRUE, ctype |-> ctype, text |-> text, li |-> <<>>, tr |-> <<>>,
     anchors |-> <<>>, links |-> <<>>, ics |-> NoElem]

Anchor(href, text) == [href |-> href, text |-> text]

Web ==
    [u \in {"http://a/news/", "http://a/big/", "http://a/one/", "http://a/mix/",
            "http://a/down/",
            "http://a/n/1", "http://a/n/2", "http://a/n/3", "http://a/n/5",
            "http://a/n/cal.ics", "http://a/n/bad.ics", "http://a/n/plain.ics",
            "http://a/n/empty.ics", "http://a/files/Event.ICAL",
            "http://a/cal/main.ics", "http://a/sub"} |->
        CASE u = "http://a/news/" ->
                Page("<html>news</html>",
                     <<E_full, E_blank, E_bare, E_dead, E_nocal, E_badcal, E_self>>,
                     <<Anchor("/feed/bad", "Broken"), Anchor("/RSS/one", "News"),
                       Anchor("about.html", "About"), Anchor("two.xml", ""),
                       Anchor("/cal/main.ics", "Download"),
                       Anchor("/sub", "Subscribe to Calendar"),
                       Anchor("/iCal/none", "")>>,
                     <<[href |-> "/feed/four"], [href |-> ""]>>,
                     NoElem)
          [] u = "http://a/big/" ->
                Page("<html>big</html>",
                     Cycle(<<E_full, E_bare>>, BigLen),
                     <<>>, <<>>, NoElem)
          [] u = "http://a/one/" ->
                Page("<html>one</html>", <<E_full>>,
                     <<Anchor("/feed/long", "Feed"), Anchor("/feed/long", "Feed"),
                       Anchor("/RSS/one", "News"), Anchor("/feed/four", "More"),
                       Anchor("/n/cal.ics", "Calendar")>>,
                     <<>>, NoElem)
          [] u = "http://a/mix/" ->
                Page("<html>mix</html>", <<>>,
                     <<Anchor("/RSS/one", "News"), Anchor("/feed/bad", "Broken"),
                       Anchor("/feed/four", "More"), Anchor("two.xml", "")>>,
                     <<>>, NoElem)
          [] u = "http://a/n/1" ->
                Page("<html>1</html>", <<>>,
                     <<Anchor("/files/Event.ICAL", "Add")>>, <<>>,
                     Elem("Add to calendar", "cal.ics"))
          [] u = "http://a/n/2" ->
                Page("<html>2</html>", <<>>,
                     <<Anchor("/about", "About"), Anchor("/files/Event.ICAL", "Add"),
                       Anchor("/cal/main.ics", "Calendar")>>, <<>>, NoElem)
          [] u = "http://a/n/3" ->
                Page("<html>3</html>", <<>>, <<Anchor("/about", "About")>>, <<>>,
                     NoElem)
          [] u = "http://a/n/5" ->
                Page("<html>5</html>", <<>>, <<Anchor("/n/bad.ics", "Add")>>, <<>>,
                     NoElem)
          [] u = "http://a/n/bad.ics" ->
                File("text/html", "<html>no calendar</html>")
          [] u = "http://a/n/plain.ics" ->
                File("", "BEGIN:VCALENDAR\nEND:VCALENDAR")
          [] u = "http://a/n/empty.ics" ->
                File("text/calendar", "")
          [] u = "http://a/n/cal.ics" ->
                File("text/calendar; charset=utf-8", "not a calendar")
          [] u = "http://a/files/Event.ICAL" ->
                File("application/octet-stream", "BEGIN:VCALENDAR\nEND:VCALENDAR")
          [] u = "http://a/cal/main.ics" ->
                File("text/calendar", LongCalendar)
          [] u = "http://a/sub" ->
                File("text/html", "<html>subscribe</html>")
          [] OTHER -> Failed]

\* self.session.get(url); response.raise_for_status()
Get(url) == IF url \in DOMAIN Web THEN Web[url] ELSE Failed

\* soup.select(selector)
Select(page, selector) ==
    CASE selector = "li" -> page.li
      [] selector = "tr" -> page.tr
      [] OTHER -> <<>>

\* element.select_one(selector)
SelectOne(element, selector) ==
    CASE selector = "h3" -> element.h3
      [] selector = "a" -> element.a
      [] selector = "span" -> element.span
      [] OTHER -> NoElem

\* one fetch an executor issues: a page, detail or ics session.get, or a
\* feedparser.parse ("feed")
Fetch(kind, url) == [kind |-> kind, url |-> url]

\* what an executor hands back: its items, whether it raised, the fetches it
\* issued and the debug captures it asked for
Outcome(items, raised, fetches, captures) ==
    [items |-> items, raised |-> raised, fetches |-> fetches,
     captures |-> captures]

----------------------------------------------------------------------------
(* The feeds: what feedparser.parse(url) gives for each URL. An entry       *)
(* attribute that is not set is Absent.                                    *)

\* length of the long entry summary
LongSummaryLen == 501

\* number of entries of the long feed
LongFeedLen == 12

Entry(title, summary, description, link) ==
    [title |-> title, summary |-> summary, description |-> description,
     link |-> link, published |-> Absent]

N_full    == Entry("Budget vote", "The council voted", Absent, "http://a/n/1")
N_blank   == Entry("", Absent, "no title here", "http://a/n/2")
N_untitled == Entry(Absent, Absent, Absent, Absent)
N_long    == Entry("Long read", Rep("y", LongSummaryLen), Absent, "http://a/n/3")

Feed(entries) == [raises |-> FALSE, entries |-> entries]

Feeds ==
    [u \in {"http://a/RSS/one", "http://a/news/two.xml", "http://a/feed/bad",
            "http://a/feed/four", "http://a/feed/long"} |->
        CASE u = "http://a/RSS/one" -> Feed(<<N_full, N_blank>>)
          [] u = "http://a/news/two.xml" -> Feed(<<>>)
          [] u = "http://a/feed/bad" -> [raises |-> TRUE, entries |-> <<>>]
          [] u = "http://a/feed/four" -> Feed(<<N_untitled>>)
          [] OTHER -> Feed(Cycle(<<N_long, N_full, N_blank>>, LongFeedLen))]

\* feedparser.parse(url): a URL that serves no feed parses to no entries
Parse(url) == IF url \in DOMAIN Feeds THEN Feeds[url] ELSE Feed(<<>>)

----------------------------------------------------------------------------
(* Limits written in the executors *)

MaxFeeds      == 3
MaxEntries    == 10
MaxListItems  == 20
MaxEvents     == 10
MaxCalendars  == 2
TitleLimit    == 100
SummaryLimit  == 500
EventIcsLimit == 1000
SubscribeIcsLimit == 2000

\* Python truth of a config value read with .get(): set and not empty
Truthy(v) == v # Absent /\ v # ""

\* the concatenation of the sequences of a sequence
RECURSIVE Flat(_)
Flat(ss) == IF Len(ss) = 0 THEN <<>> ELSE Head(ss) \o Flat(Tail(ss))

----------------------------------------------------------------------------
(* The strategy executors.  An executor is written as the chain of its     *)
(* steps: each step receives what the steps before it computed.            *)

\* getattr(entry, name, default)
GetAttr(value, default) == IF value = Absent THEN default ELSE value

\* normalize_rss_entry
normalize_rss_entry(entry, source, feed_url) ==
    [source_id   |-> source.id,
     category    |-> source.category,
     title       |-> GetAttr(entry.title, "Unknown"),
     description |-> Take(GetAttr(entry.summary, GetAttr(entry.description, "")),
                          SummaryLimit),
     url         |-> GetAttr(entry.link, ""),
     published   |-> GetAttr(entry.published, ""),
     feed_url    |-> feed_url]

\* the test of discover_rss_on_page on link.get('href', '').lower()
IsRssLower(h) == Contains("rss", h) \/ Contains("feed", h) \/ EndsWith(h, ".xml")

\* the anchors find_all('a', href=True) keeps as feed candidates
IsRssAnchor(a) == IsRssLower(Lower(a.href))

\* if link.get('href')
HasHref(l) == l.href # ""

\* the href of each member of tags, joined to base
JoinAll(base, tags) == [i \in 1..Len(tags) |-> UrlJoin(base, tags[i].href)]

\* rss_links: the anchors first, then the <link type="application/rss+xml"> tags
RssLinks(page, base) ==
    JoinAll(base, SelectSeq(page.anchors, IsRssAnchor))
    \o JoinAll(base, SelectSeq(page.links, HasHref))

\* the entries of one parsed feed as items
EntriesOf(source, rss_url, entries) ==
    [i \in 1..Len(entries) |-> normalize_rss_entry(entries[i], source, rss_url)]

\* ParsedItems without the [:10] slice of feed.entries
ParsedItems_Unbounded(source, rss_url, feed) ==
    IF feed.raises THEN <<>> ELSE EntriesOf(source, rss_url, feed.entries)

\* the items one parsed feed of the loop of discover_rss_on_page adds
ParsedItems(source, rss_url, feed) ==
    IF feed.raises THEN <<>>
    ELSE EntriesOf(source, rss_url, Take(feed.entries, MaxEntries))

FeedItems(source, rss_url) == ParsedItems(source, rss_url, Parse(rss_url))

\* RssLoop that gives up the remaining feeds once a feed fails to parse
RssLoop_StopAtFailure(source, url, feeds) ==
    LET parsed == {n \in 0..Len(feeds) :
                      \A i \in 1..n : \A j \in 1..(i - 1) : ~Parse(feeds[j]).raises}
        last   == CHOOSE n \in parsed : \A m \in parsed : m <= n
    IN  Outcome(Flat([i \in 1..last |-> FeedItems(source, feeds[i])]),
                FALSE,
                <<Fetch("page", url)>> \o [i \in 1..last |-> Fetch("feed", feeds[i])],
                <<>>)

\* the loop over rss_links[:3]
RssLoop(source, url, feeds) ==
    Outcome(Flat([i \in 1..Len(feeds) |-> FeedItems(source, feeds[i])]),
            FALSE,
            <<Fetch("page", url)>>
                \o [i \in 1..Len(feeds) |-> Fetch("feed", feeds[i])],
            <<>>)

\* discover_rss_on_page once the page is fetched
\* RssOnPage that parses every candidate feed of the page
RssOnPage_AllFeeds(source, url, page) ==
    IF ~page.ok
    THEN Outcome(<<>>, FALSE, <<Fetch("page", url)>>, <<>>)
    ELSE RssLoop(source, url, RssLinks(page, url))

\* RssOnPage that asks for the page a second time when the fetch fails
RssOnPage_Retry(source, url, page) ==
    IF ~page.ok
    THEN Outcome(<<>>, FALSE, <<Fetch("page", url), Fetch("page", url)>>, <<>>)
    ELSE RssLoop(source, url, Take(RssLinks(page, url), MaxFeeds))

RssOnPage(source, url, page) ==
    IF ~page.ok
    THEN Outcome(<<>>, FALSE, <<Fetch("page", url)>>, <<>>)
    ELSE RssLoop(source, url, Take(RssLinks(page, url), MaxFeeds))

discover_rss_on_page(source) ==
    IF source.discovery_url = Absent
    THEN \* KeyError in the try block, and again in the handler's message
         Outcome(<<>>, TRUE, <<>>, <<>>)
    ELSE RssOnPage(source, source.discovery_url, Get(source.discovery_url))

\* ListTitle without the [:100] slice of the element's own text
ListTitle_Untruncated(selector, title_elem, text) ==
    IF Truthy(selector)
    THEN IF title_elem.found THEN title_elem.text ELSE "Unknown"
    ELSE text

\* the title of an element of scrape_list
ListTitle(selector, title_elem, text) ==
    IF Truthy(selector)
    THEN IF title_elem.found THEN title_elem.text ELSE "Unknown"
    ELSE Take(text, TitleLimit)

\* item_data['url'], set when the link selector is configured and matches
ListUrl(selector, link_elem, list_url) ==
    IF Truthy(selector) /\ link_elem.found
    THEN [url |-> UrlJoin(list_url, link_elem.href)]
    ELSE <<>>

\* item_data['date'], set when the date selector is configured and matches
ListDate(selector, date_elem) ==
    IF Truthy(selector) /\ date_elem.found
    THEN [date |-> date_elem.text]
    ELSE <<>>

\* the item_data of one element of the loop of scrape_list
ListItem(source, element) ==
    [source_id |-> source.id,
     category  |-> source.category,
     title     |-> ListTitle(source.selectors.title,
                             SelectOne(element, source.selectors.title),
                             element.text)]
    @@ ListUrl(source.selectors.link, SelectOne(element, source.selectors.link),
               source.list_url)
    @@ ListDate(source.selectors.date, SelectOne(element, source.selectors.date))

\* if item_data.get('title'): only an item with a title is added
HasTitle(item) == item.title # ""

\* the loop over item_elements[:20]
\* ListLoop that walks the elements from the last to the first
ListLoop_Reversed(source, elements) ==
    SelectSeq([i \in 1..Len(elements) |->
                  ListItem(source, elements[Len(elements) + 1 - i])], HasTitle)

ListLoop(source, elements) ==
    SelectSeq([i \in 1..Len(elements) |-> ListItem(source, elements[i])], HasTitle)

\* ListOnElements without the save_debug_html call
ListOnElements_NoCapture(source, url, page, item_elements) ==
    Outcome(ListLoop(source, Take(item_elements, MaxListItems)),
            FALSE, <<Fetch("page", url)>>, <<>>)

\* scrape_list once the elements are selected
ListOnElements(source, url, page, item_elements) ==
    Outcome(ListLoop(source, Take(item_elements, MaxListItems)),
            FALSE,
            <<Fetch("page", url)>>,
            IF Len(item_elements) = 0 THEN <<<<source.id, page.text>>>> ELSE <<>>)

\* scrape_list once the page is fetched
ListOnPage(source, url, page) ==
    IF ~page.ok \/ source.selectors.item = Absent
    THEN Outcome(<<>>, FALSE, <<Fetch("page", url)>>, <<>>)
    ELSE ListOnElements(source, url, page, Select(page, source.selectors.item))

scrape_list(source) ==
    IF source.list_url = Absent
    THEN Outcome(<<>>, TRUE, <<>>, <<>>)
    ELSE ListOnPage(source, source.list_url, Get(source.list_url))

\* IcsContent that asks for the calendar marker whatever the content type
IcsContent_MarkerOnly(response) ==
    IF ~response.ok THEN Absent
    ELSE IF Contains("BEGIN:VCALENDAR", response.text) THEN response.text
    ELSE Absent

\* the content download_ics returns for a response, Absent for None
IcsContent(response) ==
    IF ~response.ok THEN Absent
    ELSE IF StartsWith(response.ctype, "text/calendar") THEN response.text
    ELSE IF Contains("BEGIN:VCALENDAR", response.text) THEN response.text
    ELSE Absent

\* download_ics: the content, with the fetch it issued
download_ics(ics_url) ==
    [fetches |-> <<Fetch("ics", ics_url)>>, data |-> IcsContent(Get(ics_url))]

\* if ics_data: neither None nor the empty string
HasData(data) == data # Absent /\ data # ""

\* the fallback test of find_ics_on_page on an anchor
IsIcsAnchor(a) == Contains(".ics", a.href) \/ Contains("ical", Lower(a.href))

\* the first anchor of the fallback scan, joined to url; Absent for None
FirstIcsAnchor(url, found) ==
    IF Len(found) > 0 THEN UrlJoin(url, found[1].href) ELSE Absent

\* soup.select_one(selectors['ics_link'])
SelectIcs(page, selector) == IF selector = ".ics" THEN page.ics ELSE NoElem

\* the link find_ics_on_page returns for a fetched page
IcsLinkOn(page, url, selector, ics_elem) ==
    IF ~page.ok THEN Absent
    ELSE IF Truthy(selector) /\ ics_elem.found THEN UrlJoin(url, ics_elem.href)
    ELSE FirstIcsAnchor(url, SelectSeq(page.anchors, IsIcsAnchor))

\* find_ics_on_page once the page is fetched
FindIcsOn(page, url, selector) ==
    [fetches |-> <<Fetch("detail", url)>>,
     ics_url |-> IcsLinkOn(page, url, selector, SelectIcs(page, selector))]

\* find_ics_on_page: the calendar link of an event page, Absent for None
find_ics_on_page(url, selectors) == FindIcsOn(Get(url), url, selectors.ics_link)

\* a pass of the event loop that appends nothing and fetches nothing
NoStep == [fetches |-> <<>>, items |-> <<>>]

\* EventDownloaded that appends the item whatever download_ics returned
EventDownloaded_Unvalidated(source, event_url, title, look, down) ==
    [fetches |-> look.fetches \o down.fetches,
     items |-> <<[source_id |-> source.id,
                  category  |-> source.category,
                  title     |-> title,
                  url       |-> event_url,
                  ics_url   |-> look.ics_url,
                  ics_data  |-> Take(down.data, EventIcsLimit)]>>]

\* EventDownloaded without the [:1000] slice of ics_data
EventDownloaded_Untruncated(source, event_url, title, look, down) ==
    [fetches |-> look.fetches \o down.fetches,
     items |-> IF HasData(down.data)
               THEN <<[source_id |-> source.id,
                       category  |-> source.category,
                       title     |-> title,
                       url       |-> event_url,
                       ics_url   |-> look.ics_url,
                       ics_data  |-> down.data]>>
               ELSE <<>>]

\* EventDownloaded with the calendar file asked for before the detail page
EventDownloaded_IcsFirst(source, event_url, title, look, down) ==
    [fetches |-> down.fetches \o look.fetches,
     items |-> IF HasData(down.data)
               THEN <<[source_id |-> source.id,
                       category  |-> source.category,
                       title     |-> title,
                       url       |-> event_url,
                       ics_url   |-> look.ics_url,
                       ics_data  |-> Take(down.data, EventIcsLimit)]>>
               ELSE <<>>]

\* the end of a pass of the event loop: the calendar file was asked for
EventDownloaded(source, event_url, title, look, down) ==
    [fetches |-> look.fetches \o down.fetches,
     items |-> IF HasData(down.data)
               THEN <<[source_id |-> source.id,
                       category  |-> source.category,
                       title     |-> title,
                       url       |-> event_url,
                       ics_url   |-> look.ics_url,
                       ics_data  |-> Take(down.data, EventIcsLimit)]>>
               ELSE <<>>]

\* a pass of the event loop after find_ics_on_page
EventLooked(source, event_url, title, look) ==
    IF ~Truthy(look.ics_url)
    THEN [fetches |-> look.fetches, items |-> <<>>]
    ELSE EventDownloaded(source, event_url, title, look, download_ics(look.ics_url))

\* a pass of the event loop once the event's URL and title are known
EventAt(source, event_url, title_elem) ==
    EventLooked(source, event_url,
                IF title_elem.found THEN title_elem.text ELSE "Unknown Event",
                find_ics_on_page(event_url, source.selectors))

\* a pass of the event loop once the link element is selected
EventLinked(source, event_elem, link_elem) ==
    IF ~link_elem.found THEN NoStep                        \* continue
    ELSE IF source.selectors.title = Absent THEN NoStep    \* KeyError, logged
    ELSE EventAt(source, UrlJoin(source.list_url, link_elem.href),
                 SelectOne(event_elem, source.selectors.title))

\* one pass of the loop of follow_event_then_download_ics: the fetches it
\* issues and the items (none or one) it appends
EventStep(source, event_elem) ==
    IF source.selectors.link = Absent THEN NoStep          \* KeyError, logged
    ELSE EventLinked(source, event_elem,
                     SelectOne(event_elem, source.selectors.link))

\* Collect that leaves the loop at the first pass that appends nothing
Collect_StopAtSkip(url, steps) ==
    LET done == {n \in 0..Len(steps) : \A i \in 1..n : Len(steps[i].items) > 0}
        last == CHOOSE n \in done : \A m \in done : m <= n
    IN  Outcome(Flat([i \in 1..last |-> steps[i].items]),
                FALSE,
                <<Fetch("page", url)>> \o Flat([i \in 1..last |-> steps[i].fetches]),
                <<>>)

\* what the passes of a loop add up to
Collect(url, steps) ==
    Outcome(Flat([i \in 1..Len(steps) |-> steps[i].items]),
            FALSE,
            <<Fetch("page", url)>> \o Flat([i \in 1..Len(steps) |-> steps[i].fetches]),
            <<>>)

\* the loop over event_elements
EventLoop(source, url, event_elements) ==
    Collect(url, [i \in 1..Len(event_elements) |->
                     EventStep(source, event_elements[i])])

\* follow_event_then_download_ics once the list page is fetched
EventsOnPage(source, url, page) ==
    IF ~page.ok \/ source.selectors.item = Absent
    THEN Outcome(<<>>, FALSE, <<Fetch("page", url)>>, <<>>)
    ELSE EventLoop(source, url, Take(Select(page, source.selectors.item), MaxEvents))

follow_event_then_download_ics(source) ==
    IF source.list_url = Absent
    THEN Outcome(<<>>, TRUE, <<>>, <<>>)
    ELSE EventsOnPage(source, source.list_url, Get(source.list_url))

\* the test of discover_ics_subscribe_link on an anchor's lowered text
IsSubscribeText(text) == Contains("subscribe", text) /\ Contains("calendar", text)

\* the anchors discover_ics_subscribe_link keeps as calendar candidates
IsSubscribeAnchor(a) ==
    \/ Contains(".ics", a.href)
    \/ IsSubscribeText(Lower(a.text))
    \/ Contains("ical", Lower(a.href))

\* a pass of the download loop once the calendar file was asked for
Subscribed(source, ics_url, down) ==
    [fetches |-> down.fetches,
     items |-> IF HasData(down.data)
               THEN <<[source_id |-> source.id,
                       category  |-> source.category,
                       title     |-> "Calendar: " \o source.name,
                       url       |-> source.discovery_url,
                       ics_url   |-> ics_url,
                       ics_data  |-> Take(down.data, SubscribeIcsLimit)]>>
               ELSE <<>>]

\* one pass of the download loop of discover_ics_subscribe_link
SubscribeStep(source, ics_url) == Subscribed(source, ics_url, download_ics(ics_url))

\* the loop over ics_links[:2]
SubscribeLoop(source, url, ics_links) ==
    Collect(url, [i \in 1..Len(ics_links) |-> SubscribeStep(source, ics_links[i])])

\* discover_ics_subscribe_link once the page is fetched
SubscribeOnPage(source, url, page) ==
    IF ~page.ok
    THEN Outcome(<<>>, FALSE, <<Fetch("page", url)>>, <<>>)
    ELSE SubscribeLoop(source, url,
                       Take(JoinAll(url, SelectSeq(page.anchors, IsSubscribeAnchor)),
                            MaxCalendars))

discover_ics_subscribe_link(source) ==
    IF source.discovery_url = Absent
    THEN Outcome(<<>>, TRUE, <<>>, <<>>)
    ELSE SubscribeOnPage(source, source.discovery_url, Get(source.discovery_url))

\* scrape_source whose else branch raises instead of returning []
scrape_source_Strict(source) ==
    CASE source.strategy = "discover_rss_on_page" -> discover_rss_on_page(source)
      [] source.strategy = "scrape_list" -> scrape_list(source)
      [] source.strategy = "follow_event_then_download_ics" ->
            follow_event_then_download_ics(source)
      [] source.strategy = "discover_ics_subscribe_link" ->
            discover_ics_subscribe_link(source)
      [] OTHER -> Outcome(<<>>, TRUE, <<>>, <<>>)

\* scrape_source that remembers the call before: a source is scraped only in
\* the first call on the scraper
scrape_source_Once(source) ==
    IF earlier.any
    THEN Outcome(<<>>, FALSE, <<>>, <<>>)
    ELSE CASE source.strategy = "discover_rss_on_page" -> discover_rss_on_page(source)
           [] source.strategy = "scrape_list" -> scrape_list(source)
           [] source.strategy = "follow_event_then_download_ics" ->
                 follow_event_then_download_ics(source)
           [] source.strategy = "discover_ics_subscribe_link" ->
                 discover_ics_subscribe_link(source)
           [] OTHER -> Outcome(<<>>, FALSE, <<>>, <<>>)

\* scrape_source: dispatch on the strategy name
scrape_source(source) ==
    CASE source.strategy = "discover_rss_on_page" -> discover_rss_on_page(source)
      [] source.strategy = "scrape_list" -> scrape_list(source)
      [] source.strategy = "follow_event_then_download_ics" ->
            follow_event_then_download_ics(source)
      [] source.strategy = "discover_ics_subscribe_link" ->
            discover_ics_subscribe_link(source)
      [] OTHER -> Outcome(<<>>, FALSE, <<>>, <<>>)

----------------------------------------------------------------------------
(* The configurations and the arguments the runs are made with *)

\* longest configuration with several sources
MaxSources == 2

\* longest list of source ids passed to scrape_all_sources
MaxFilterLen == 2

Selectors(item, title, link, date, ics_link) ==
    [item |-> item, title |-> title, link |-> link, date |-> date,
     ics_link |-> ics_link]

NoSelectors == Selectors(Absent, Absent, Absent, Absent, Absent)

\* a source of the configuration, before it is given its id
Shape(strategy, list_url, discovery_url, selectors) ==
    [strategy |-> strategy, list_url |-> list_url,
     discovery_url |-> discovery_url, selectors |-> selectors]

\* a source that names no strategy, no URL and no selector
NoShape == Shape(Absent, Absent, Absent, NoSelectors)

ListStrategies == {"scrape_list", "follow_event_then_download_ics"}
DiscoveryStrategies == {"discover_rss_on_page", "discover_ics_subscribe_link"}

\* strategy names scrape_source does not know; Absent is a missing strategy
UnknownStrategies == {"scrape_table", Absent}

\* every shape of source a configuration of one source is made of
AllShapes ==
    {Shape("scrape_list", u, Absent, Selectors(i, t, l, d, Absent)) :
        u \in {"http://a/news/", "http://a/big/", "http://a/down/", Absent},
        i \in {"li", "tr", Absent}, t \in {"h3", Absent}, l \in {"a", Absent},
        d \in {"span", Absent}}
    \cup
    {Shape("follow_event_then_download_ics", u, Absent,
           Selectors(i, t, l, Absent, c)) :
        u \in {"http://a/news/", "http://a/big/", "http://a/down/", Absent},
        i \in {"li", "tr", Absent}, t \in {"h3", Absent}, l \in {"a", Absent},
        c \in {".ics", Absent}}
    \cup
    {Shape(st, Absent, u, NoSelectors) :
        st \in DiscoveryStrategies,
        u \in {"http://a/news/", "http://a/one/", "http://a/mix/", "http://a/down/",
               Absent}}
    \cup
    {Shape(st, "http://a/news/", "http://a/news/",
           Selectors("li", "h3", "a", "span", ".ics")) : st \in UnknownStrategies}

\* the shapes the configurations of several sources are made of
BatchShapes ==
    {Shape("scrape_list", "http://a/news/", Absent,
           Selectors("li", "h3", "a", "span", Absent)),
     Shape("scrape_list", "http://a/down/", Absent,
           Selectors("li", "h3", "a", "span", Absent)),
     Shape("scrape_list", Absent, "http://a/news/",
           Selectors("li", "h3", "a", "span", Absent)),
     Shape("discover_rss_on_page", Absent, "http://a/news/", NoSelectors),
     Shape("follow_event_then_download_ics", "http://a/news/", Absent,
           Selectors("li", "h3", "a", Absent, Absent)),
     Shape("discover_ics_subscribe_link", Absent, Absent, NoSelectors),
     Shape("scrape_table", "http://a/news/", Absent,
           Selectors("li", "h3", "a", "span", Absent))}

IdOf(i) == "id-" \o ToString(i)

\* the i-th source of a configuration: id, name and category are always set
Source(i, shape) ==
    [id |-> IdOf(i), name |-> "Source " \o ToString(i), category |-> "news"]
    @@ shape

Configs ==
    {<<Source(1, sh)>> : sh \in AllShapes}
    \cup UNION {{[i \in 1..n |-> Source(i, f[i])] : f \in [1..n -> BatchShapes]} :
                    n \in 0..MaxSources}

\* the ids a caller asks for: two configured ones and one that is not
AskedIds == {"id-1", "id-2", "id-9"}

\* source_ids = None
NoFilter == [given |-> FALSE, ids |-> <<>>]

Filter(ids) == [given |-> TRUE, ids |-> ids]

Filters ==
    {NoFilter} \cup
    UNION {{Filter(f) : f \in [1..n -> AskedIds]} : n \in 0..MaxFilterLen}

\* x in seq
InSeq(x, seq) == \E i \in 1..Len(seq) : seq[i] = x

\* the message of the KeyError an executor lets through
ErrorText(source) ==
    IF source.strategy \in ListStrategies THEN "'list_url'" ELSE "'discovery_url'"

----------------------------------------------------------------------------
(* scrape_all_sources *)

EmptyReport == [sources_scraped |-> <<>>, total_items |-> 0, errors |-> <<>>]

\* no helper has been called on its own
NoCall == [op |-> "none", args |-> <<>>, result |-> Absent]

\* load_config that returns what it read of a file it could not parse
load_config_Partial(file) == file.sources

\* load_config: the parsed file, or an empty source list when open or
\* json.load raises
load_config(file) == IF file.status = "ok" THEN file.sources ELSE <<>>

\* the configuration files: one per configuration, a file that cannot be
\* opened, and a file whose text stops in the middle of its second source
ConfigFiles ==
    {[status |-> "ok", sources |-> c] : c \in Configs}
    \cup {[status |-> "unreadable", sources |-> <<>>],
          [status |-> "malformed",
           sources |-> <<Source(1, Shape("discover_rss_on_page", Absent,
                                         "http://a/news/", NoSelectors))>>]}

Init ==
    /\ \E file \in ConfigFiles :
          /\ load_status = file.status
          /\ config = load_config(file)
    /\ pc = "idle"
    /\ source_ids = NoFilter
    /\ sources_to_scrape = <<>>
    /\ idx = 1
    /\ results = EmptyReport
    /\ fetch_log = <<>>
    /\ debug_calls = <<>>
    /\ applied = NoCall
    /\ earlier = NoEarlier

\* SourcesToScrape walking the asked ids instead of the configuration
SourcesToScrape_AskedOrder(sources, asked) ==
    IF asked.given /\ Len(asked.ids) > 0
    THEN Flat([i \in 1..Len(asked.ids) |->
                  SelectSeq(sources, LAMBDA s : s.id = asked.ids[i])])
    ELSE sources

\* if source_ids: the list comprehension keeps the configuration order
SourcesToScrape(sources, asked) ==
    IF asked.given /\ Len(asked.ids) > 0
    THEN SelectSeq(sources, LAMBDA s : InSeq(s.id, asked.ids))
    ELSE sources

\* the call, up to the for loop
Call(asked) ==
    /\ pc = "idle"
    /\ pc' = "loop"
    /\ source_ids' = asked
    /\ results' = EmptyReport
    /\ sources_to_scrape' = SourcesToScrape(config, asked)
    /\ idx' = 1
    /\ UNCHANGED <<config, fetch_log, debug_calls, applied, earlier, load_status>>

\* Succeeded with total_items assigned instead of added to
Succeeded_Overwrite(report, source, items) ==
    [report EXCEPT
        !.sources_scraped = Append(@, [id |-> source.id,
                                       name |-> source.name,
                                       category |-> source.category,
                                       items_found |-> Len(items),
                                       items |-> items,
                                       status |-> "success"]),
        !.total_items = Len(items)]

\* the report after the try block of one source ran to its end
Succeeded(report, source, items) ==
    [report EXCEPT
        !.sources_scraped = Append(@, [id |-> source.id,
                                       name |-> source.name,
                                       category |-> source.category,
                                       items_found |-> Len(items),
                                       items |-> items,
                                       status |-> "success"]),
        !.total_items = @ + Len(items)]

\* Errored that records the error and appends no SourceResult
Errored_Dropped(report, source) ==
    [report EXCEPT
        !.errors = Append(@, [source_id |-> source.id,
                              error |-> "Error scraping " \o source.id])]

\* Errored that appends the SourceResult and records no error
Errored_Unrecorded(report, source) ==
    [report EXCEPT
        !.sources_scraped = Append(@, [id |-> source.id,
                                       name |-> source.name,
                                       status |-> "error",
                                       error |-> "Error scraping " \o source.id,
                                       items_found |-> 0])]

\* the report after the except block of one source
Errored(report, source) ==
    LET error_msg == "Error scraping " \o source.id \o ": " \o ErrorText(source)
    IN  [report EXCEPT
            !.errors = Append(@, [source_id |-> source.id, error |-> error_msg]),
            !.sources_scraped = Append(@, [id |-> source.id,
                                           name |-> source.name,
                                           status |-> "error",
                                           error |-> error_msg,
                                           items_found |-> 0])]

\* the fetches of one source as records of fetch_log
Logged(id, fetches) ==
    [i \in 1..Len(fetches) |->
        [source_id |-> id, kind |-> fetches[i].kind, url |-> fetches[i].url]]

\* one pass of the for loop whose scrape_source returns
ScrapeOk ==
    /\ pc = "loop"
    /\ idx <= Len(sources_to_scrape)
    /\ LET source == sources_to_scrape[idx]
           out    == scrape_source(source)
       IN  /\ ~out.raised
           /\ results' = Succeeded(results, source, out.items)
           /\ fetch_log' = fetch_log \o Logged(source.id, out.fetches)
           /\ debug_calls' = debug_calls \o out.captures
    /\ idx' = idx + 1
    /\ UNCHANGED <<config, pc, source_ids, sources_to_scrape, applied, earlier,
                   load_status>>

\* one pass of the for loop whose scrape_source raises
ScrapeErr ==
    /\ pc = "loop"
    /\ idx <= Len(sources_to_scrape)
    /\ LET source == sources_to_scrape[idx]
           out    == scrape_source(source)
       IN  /\ out.raised
           /\ results' = Errored(results, source)
           /\ fetch_log' = fetch_log \o Logged(source.id, out.fetches)
           /\ debug_calls' = debug_calls \o out.captures
    /\ idx' = idx + 1
    /\ UNCHANGED <<config, pc, source_ids, sources_to_scrape, applied, earlier,
                   load_status>>

\* return results
Return ==
    /\ pc = "loop"
    /\ idx > Len(sources_to_scrape)
    /\ pc' = "done"
    /\ UNCHANGED <<config, source_ids, sources_to_scrape, idx, results,
                   fetch_log, debug_calls, applied, earlier, load_status>>

Next ==
    \/ \E asked \in Filters : Call(asked)
    \/ ScrapeOk
    \/ ScrapeErr
    \/ Return

Spec == Init /\ [][Next]_vars

\* a pass of the for loop can be taken: ENABLED <<ScrapeOk \/ ScrapeErr>>_vars
PassEnabled == pc = "loop" /\ idx <= Len(sources_to_scrape)

\* the for loop is a plain loop over a list: when every fetch returns, each
\* pass runs to its end and the function returns after the last one.  This
\* is WF_vars(ScrapeOk \/ ScrapeErr) /\ WF_vars(Return), the first written
\* with its enabling condition spelled out.
FairSpec ==
    /\ Spec
    /\ ([]<>(~PassEnabled) \/ []<><<ScrapeOk \/ ScrapeErr>>_vars)
    /\ WF_vars(Return)

----------------------------------------------------------------------------
(* scrape_all_sources called again and again on one scraper *)

\* the longest configuration of the scraper that is called repeatedly
RepeatLen == 2

\* the shapes of its sources: a list whose selector matches, a list whose
\* selector matches nothing, a feed page, an event list, and a list source
\* with no list_url
RepeatShapes ==
    {Shape("scrape_list", "http://a/news/", Absent,
           Selectors("li", "h3", "a", "span", Absent)),
     Shape("scrape_list", "http://a/news/", Absent,
           Selectors("tr", "h3", "a", "span", Absent)),
     Shape("discover_rss_on_page", Absent, "http://a/news/", NoSelectors),
     Shape("follow_event_then_download_ics", "http://a/news/", Absent,
           Selectors("li", "h3", "a", Absent, Absent)),
     Shape("scrape_list", Absent, "http://a/news/",
           Selectors("li", "h3", "a", "span", Absent))}

RepeatConfigs ==
    UNION {{[i \in 1..n |-> Source(i, f[i])] : f \in [1..n -> RepeatShapes]} :
                n \in 1..RepeatLen}

\* the arguments of the calls, as test_priority_sources passes them: one id
\* per call, or none, or both ids against the configuration order
RepeatFilters ==
    {NoFilter, Filter(<<"id-1">>), Filter(<<"id-2">>), Filter(<<"id-2", "id-1">>)}

RepeatInit ==
    /\ config \in RepeatConfigs
    /\ load_status = "ok"
    /\ pc = "idle"
    /\ source_ids = NoFilter
    /\ sources_to_scrape = <<>>
    /\ idx = 1
    /\ results = EmptyReport
    /\ fetch_log = <<>>
    /\ debug_calls = <<>>
    /\ applied = NoCall
    /\ earlier = NoEarlier

\* CallAgain that goes on with the report of the call before
CallAgain_KeepReport(asked) ==
    /\ pc = "done"
    /\ pc' = "loop"
    /\ source_ids' = asked
    /\ results' = results
    /\ sources_to_scrape' = SourcesToScrape(config, asked)
    /\ idx' = 1
    /\ earlier' = [any |-> TRUE, asked |-> source_ids, report |-> results,
                   fetch_log |-> fetch_log, captures |-> debug_calls]
    /\ fetch_log' = <<>>
    /\ debug_calls' = <<>>
    /\ UNCHANGED <<config, applied, load_status>>

\* the next call on the same scraper, up to the for loop: results is a new
\* dict, self.config is read; the report and the logs of the call before
\* are kept aside in earlier
CallAgain(asked) ==
    /\ pc = "done"
    /\ pc' = "loop"
    /\ source_ids' = asked
    /\ results' = EmptyReport
    /\ sources_to_scrape' = SourcesToScrape(config, asked)
    /\ idx' = 1
    /\ earlier' = [any |-> TRUE, asked |-> source_ids, report |-> results,
                   fetch_log |-> fetch_log, captures |-> debug_calls]
    /\ fetch_log' = <<>>
    /\ debug_calls' = <<>>
    /\ UNCHANGED <<config, applied, load_status>>

RepeatNext ==
    \/ \E asked \in RepeatFilters : Call(asked)
    \/ \E asked \in RepeatFilters : CallAgain(asked)
    \/ ScrapeOk
    \/ ScrapeErr
    \/ Return

RepeatSpec == RepeatInit /\ [][RepeatNext]_vars

----------------------------------------------------------------------------
(* Properties of the report of scrape_all_sources *)

KnownStrategies == ListStrategies \cup DiscoveryStrategies

Returned == pc = "done"

\* the ids of a sequence of sources or of SourceResults
IdsOf(seq) == [i \in 1..Len(seq) |-> seq[i].id]

\* the SourceResults of the report
Scraped == results.sources_scraped

\* the SourceResults of the report line up with the sources the loop walked
Aligned == Len(Scraped) = Len(sources_to_scrape)

IsSuccess(r) == r.status = "success"
IsError(r) == r.status = "error"

\* the URL key the strategy of a source reads
UrlOf(source) ==
    IF source.strategy \in ListStrategies THEN source.list_url
    ELSE source.discovery_url

\* the fetch of the source's own page fails
PageFetchFails(source) ==
    /\ source.strategy \in KnownStrategies
    /\ UrlOf(source) # Absent
    /\ ~Get(UrlOf(source)).ok

\* the records of fetch_log, of debug_calls and of results.errors of one source
FetchesOf(id) == SelectSeq(fetch_log, LAMBDA f : f.source_id = id)
CapturesOf(id) == SelectSeq(debug_calls, LAMBDA c : c[1] = id)
ErrorsOf(id) == SelectSeq(results.errors, LAMBDA e : e.source_id = id)

\* the sum of items_found over the successful members of rs
RECURSIVE SumFound(_)
SumFound(rs) ==
    IF Len(rs) = 0 THEN 0
    ELSE (IF IsSuccess(Head(rs)) THEN Head(rs).items_found ELSE 0)
         + SumFound(Tail(rs))

\* C1: the returned report holds exactly one SourceResult per selected
\* source, in the order of the configuration, whatever failed while the
\* sources were processed.
C1_OneResultPerSource ==
    Returned => IdsOf(Scraped) = IdsOf(sources_to_scrape)

\* C1: a source that ended in the except block is followed by a source that
\* was scraped and delivered items.
C1_Witness ==
    /\ Returned
    /\ Len(Scraped) = 2
    /\ IsError(Scraped[1])
    /\ IsSuccess(Scraped[2]) /\ Scraped[2].items_found > 0

\* C2: a source whose page fetch fails has a SourceResult with status=error
\* and items_found=0 and exactly one error record in the report.
C2_FetchFailureIsError ==
    (Returned /\ Aligned) =>
        \A i \in 1..Len(sources_to_scrape) :
            PageFetchFails(sources_to_scrape[i]) =>
                /\ IsError(Scraped[i])
                /\ Scraped[i].items_found = 0
                /\ Len(ErrorsOf(Scraped[i].id)) = 1

\* C3: total_items is the sum of items_found over the successful
\* SourceResults, each of which counts its own items; an error SourceResult
\* counts none.
C3_TotalIsSum ==
    /\ results.total_items = SumFound(Scraped)
    /\ \A i \in 1..Len(Scraped) :
          IF IsSuccess(Scraped[i])
          THEN Scraped[i].items_found = Len(Scraped[i].items)
          ELSE Scraped[i].items_found = 0

\* C3: a report with an error SourceResult and two sources' worth of items.
C3_Witness ==
    /\ Returned
    /\ \E i \in 1..Len(Scraped) : IsError(Scraped[i])
    /\ \E i \in 1..Len(Scraped) : IsSuccess(Scraped[i]) /\ Scraped[i].items_found > 1
    /\ results.total_items > 1

\* C4: with a non-empty list of asked ids, the ids of the SourceResults are
\* the ids of the configuration restricted to the asked ids, in the order of
\* the configuration.
C4_FilterKeepsConfigOrder ==
    (Returned /\ source_ids.given /\ Len(source_ids.ids) > 0) =>
        IdsOf(Scraped) =
            SelectSeq(IdsOf(config), LAMBDA id : InSeq(id, source_ids.ids))

\* C4: the ids were asked for in the opposite order of the configuration.
C4_Witness ==
    /\ Returned
    /\ source_ids = Filter(<<"id-2", "id-1">>)
    /\ IdsOf(Scraped) = <<"id-1", "id-2">>

\* C4: an asked id selects its source out of a longer configuration.
C4_WitnessSubset ==
    /\ Returned
    /\ source_ids = Filter(<<"id-2", "id-9">>)
    /\ Len(config) = 2
    /\ IdsOf(Scraped) = <<"id-2">>

\* C5: whenever a list of asked ids is given, the empty list included, every
\* SourceResult has an id of that list.
C5_OnlyAskedIds ==
    (Returned /\ source_ids.given) =>
        \A i \in 1..Len(Scraped) : InSeq(Scraped[i].id, source_ids.ids)

\* C6: a source whose strategy is none of the four known names (or is
\* missing) gets a success SourceResult with no items, no error record and
\* no fetch.
C6_UnknownStrategyIsNoOp ==
    (Returned /\ Aligned) =>
        \A i \in 1..Len(sources_to_scrape) :
            sources_to_scrape[i].strategy \notin KnownStrategies =>
                /\ IsSuccess(Scraped[i])
                /\ Scraped[i].items_found = 0
                /\ Scraped[i].items = <<>>
                /\ ErrorsOf(Scraped[i].id) = <<>>
                /\ FetchesOf(Scraped[i].id) = <<>>

\* C6: a source with a misspelt strategy was processed after a source that
\* fetched.
C6_Witness ==
    /\ Returned
    /\ Len(sources_to_scrape) = 2
    /\ sources_to_scrape[2].strategy = "scrape_table"
    /\ IsSuccess(Scraped[2])
    /\ fetch_log # <<>>

\* C6: a source with no strategy at all was processed.
C6_WitnessMissing ==
    /\ Returned
    /\ Len(sources_to_scrape) = 1
    /\ sources_to_scrape[1].strategy = Absent
    /\ IsSuccess(Scraped[1])

\* C7: every item of every executor has a non-empty title.
C7_TitlesNonEmpty ==
    \A i \in 1..Len(Scraped) :
        IsSuccess(Scraped[i]) =>
            \A k \in 1..Len(Scraped[i].items) : Scraped[i].items[k].title # ""

\* C8: the error records and the SourceResults with status=error name the
\* same source ids in the same order.
C8_ErrorsMatchErrorResults ==
    [i \in 1..Len(results.errors) |-> results.errors[i].source_id]
        = IdsOf(SelectSeq(Scraped, IsError))

\* C8: a report with an error record and a successful SourceResult.
C8_Witness ==
    /\ Returned
    /\ Len(results.errors) = 1
    /\ Len(Scraped) = 2
    /\ IsSuccess(Scraped[1]) /\ IsError(Scraped[2])

\* the page of a list-scrape source was fetched and its item selector is set
ListPageFetched(source) ==
    /\ source.strategy = "scrape_list"
    /\ source.list_url # Absent
    /\ source.selectors.item # Absent
    /\ Get(source.list_url).ok

\* the elements the item selector of a list-scrape source matches
MatchedBy(source) == Select(Get(source.list_url), source.selectors.item)

\* C9: list-scrape on a fetched page whose item selector matches nothing
\* returns no item, is a success, and makes exactly one debug capture, of
\* that source's id and raw document; when an element matches there is no
\* debug capture.
C9_DebugCaptureOnZeroMatch ==
    (Returned /\ Aligned) =>
        \A i \in 1..Len(sources_to_scrape) :
            LET source == sources_to_scrape[i]
            IN  ListPageFetched(source) =>
                    IF Len(MatchedBy(source)) = 0
                    THEN /\ IsSuccess(Scraped[i])
                         /\ Scraped[i].items = <<>>
                         /\ CapturesOf(source.id) =
                               <<<<source.id, Get(source.list_url).text>>>>
                    ELSE CapturesOf(source.id) = <<>>

\* C9: the selector matched nothing on the news page and the page was
\* captured.
C9_Witness ==
    /\ Returned
    /\ Len(Scraped) = 1
    /\ IsSuccess(Scraped[1])
    /\ debug_calls = <<<<"id-1", "<html>news</html>">>>>

\* C9: elements matched, items were returned and nothing was captured.
C9_WitnessMatch ==
    /\ Returned
    /\ Len(sources_to_scrape) = 1
    /\ ListPageFetched(sources_to_scrape[1])
    /\ Scraped[1].items_found > 0
    /\ debug_calls = <<>>

\* the items of a SourceResult that came from the feed feed_url
FromFeed(r, feed_url) == SelectSeq(r.items, LAMBDA item : item.feed_url = feed_url)

\* the parses of the feed feed_url made for the source id
ParsesOf(id, feed_url) ==
    SelectSeq(fetch_log,
              LAMBDA f : f.source_id = id /\ f.kind = "feed" /\ f.url = feed_url)

\* the feeds parsed for the source id
FeedParsesOf(id) ==
    SelectSeq(fetch_log, LAMBDA f : f.source_id = id /\ f.kind = "feed")

\* C10: list-scrape returns at most 20 items; RSS-discovery parses at most
\* 3 feeds, takes at most 10 entries from each parse, and so returns at most
\* 30 items.
C10_ResultCaps ==
    (Returned /\ Aligned) =>
        \A i \in 1..Len(sources_to_scrape) :
            LET source == sources_to_scrape[i]
            IN  /\ source.strategy = "scrape_list" =>
                      Scraped[i].items_found <= MaxListItems
                /\ (source.strategy = "discover_rss_on_page" /\ IsSuccess(Scraped[i])) =>
                      /\ Len(FeedParsesOf(source.id)) <= MaxFeeds
                      /\ \A k \in 1..Len(Scraped[i].items) :
                            LET feed_url == Scraped[i].items[k].feed_url
                            IN  Len(FromFeed(Scraped[i], feed_url))
                                  <= MaxEntries * Len(ParsesOf(source.id, feed_url))
                      /\ Scraped[i].items_found <= MaxFeeds * MaxEntries

\* C10: a list page with more than 20 matching elements gave 20 items.
C10_Witness ==
    /\ Returned
    /\ Len(sources_to_scrape) = 1
    /\ ListPageFetched(sources_to_scrape[1])
    /\ Len(MatchedBy(sources_to_scrape[1])) > MaxListItems
    /\ Scraped[1].items_found = MaxListItems

\* C10: a page with more than 3 candidate feeds had 3 parsed, and a feed with
\* more than 10 entries gave 10 items per parse.
C10_WitnessFeeds ==
    /\ Returned
    /\ Len(sources_to_scrape) = 1
    /\ sources_to_scrape[1].strategy = "discover_rss_on_page"
    /\ Len(RssLinks(Get("http://a/one/"), "http://a/one/")) > MaxFeeds
    /\ Len(Parse("http://a/feed/long").entries) > MaxEntries
    /\ Len(FeedParsesOf("id-1")) = MaxFeeds
    /\ Len(FromFeed(Scraped[1], "http://a/feed/long"))
          = MaxEntries * Len(ParsesOf("id-1", "http://a/feed/long"))

----------------------------------------------------------------------------
(* Properties of the RSS-discovery executor *)

\* a source of RSS discovery whose page was fetched
RssPageFetched(source) ==
    /\ source.strategy = "discover_rss_on_page"
    /\ source.discovery_url # Absent
    /\ Get(source.discovery_url).ok

\* the candidate feeds of the page of a source, resolved, up to the limit
CandidatesOf(source) ==
    Take(RssLinks(Get(source.discovery_url), source.discovery_url), MaxFeeds)

\* the URLs of a sequence of fetches
UrlsOf(fetches) == [k \in 1..Len(fetches) |-> fetches[k].url]

\* the number of items one parse of the feed feed_url is to give
Yield(feed_url) ==
    IF Parse(feed_url).raises THEN 0
    ELSE Min(Len(Parse(feed_url).entries), MaxEntries)

\* C15: in RSS discovery on a fetched page the source is a success with no
\* error record, every candidate feed up to the limit is parsed whether or
\* not one before it failed to parse, a feed that fails to parse and a feed
\* with no entries give no item, and every other feed keeps its items.
C15_BrokenFeedSkipped ==
    (Returned /\ Aligned) =>
        \A i \in 1..Len(sources_to_scrape) :
            RssPageFetched(sources_to_scrape[i]) =>
                LET candidates == CandidatesOf(sources_to_scrape[i])
                IN  /\ IsSuccess(Scraped[i])
                    /\ ErrorsOf(sources_to_scrape[i].id) = <<>>
                    /\ UrlsOf(FeedParsesOf(sources_to_scrape[i].id)) = candidates
                    /\ \A k \in 1..Len(candidates) :
                          Len(FromFeed(Scraped[i], candidates[k]))
                            = Yield(candidates[k])
                              * Len(ParsesOf(sources_to_scrape[i].id, candidates[k]))

\* C15: a feed failed to parse between two feeds that gave items; the items
\* of the feed before it were kept and the feed after it was parsed.
C15_Witness ==
    /\ Returned
    /\ Len(Scraped) = 1
    /\ UrlsOf(FeedParsesOf("id-1"))
          = <<"http://a/RSS/one", "http://a/feed/bad", "http://a/feed/four">>
    /\ Parse("http://a/feed/bad").raises
    /\ IsSuccess(Scraped[1])
    /\ Len(FromFeed(Scraped[1], "http://a/RSS/one")) = 2
    /\ Len(FromFeed(Scraped[1], "http://a/feed/four")) = 1
    /\ Scraped[1].items_found = 3

\* C15: a feed with no entries was parsed and gave no item and no error.
C15_WitnessEmpty ==
    /\ Returned
    /\ Len(Scraped) = 1
    /\ Len(ParsesOf("id-1", "http://a/news/two.xml")) = 1
    /\ ~Parse("http://a/news/two.xml").raises
    /\ Parse("http://a/news/two.xml").entries = <<>>
    /\ IsSuccess(Scraped[1])
    /\ results.errors = <<>>

\* seq without the members that repeat an earlier member
RECURSIVE Distinct(_)
Distinct(seq) ==
    IF Len(seq) = 0 THEN <<>>
    ELSE LET front == Distinct(SubSeq(seq, 1, Len(seq) - 1))
         IN  IF InSeq(seq[Len(seq)], front) THEN front
             ELSE Append(front, seq[Len(seq)])

\* a source of calendar-subscription discovery whose page was fetched
SubscribePageFetched(source) ==
    /\ source.strategy = "discover_ics_subscribe_link"
    /\ source.discovery_url # Absent
    /\ Get(source.discovery_url).ok

\* every calendar candidate of the page of a source, resolved
SubscribeLinks(source) ==
    JoinAll(source.discovery_url,
            SelectSeq(Get(source.discovery_url).anchors, IsSubscribeAnchor))

\* the calendar files fetched for the source id
IcsFetchesOf(id) ==
    SelectSeq(fetch_log, LAMBDA f : f.source_id = id /\ f.kind = "ics")

\* C16: the feeds RSS discovery parses for a source are the first 3 distinct
\* resolved candidates of its page, so that no feed is parsed twice, and the
\* calendar files calendar-subscription discovery fetches are the first 2
\* distinct resolved candidates.
C16_DistinctCandidates ==
    (Returned /\ Aligned) =>
        \A i \in 1..Len(sources_to_scrape) :
            /\ RssPageFetched(sources_to_scrape[i]) =>
                    UrlsOf(FeedParsesOf(sources_to_scrape[i].id))
                      = Take(Distinct(RssLinks(Get(sources_to_scrape[i].discovery_url),
                                               sources_to_scrape[i].discovery_url)),
                             MaxFeeds)
            /\ SubscribePageFetched(sources_to_scrape[i]) =>
                    UrlsOf(IcsFetchesOf(sources_to_scrape[i].id))
                      = Take(Distinct(SubscribeLinks(sources_to_scrape[i])),
                             MaxCalendars)

----------------------------------------------------------------------------
(* Properties of the list-scrape executor *)

\* the titles of a sequence of items
TitlesOf(items) == [k \in 1..Len(items) |-> items[k].title]

\* the elements list-scrape walks: the first 20 the item selector matches
WalkedBy(source) == Take(MatchedBy(source), MaxListItems)

\* the element's own text, truncated
OwnText(element) == Take(element.text, TitleLimit)

\* the title as stated: the selected text, else the element's own text
StatedTitle(source, element) ==
    IF /\ source.selectors.title # Absent
       /\ SelectOne(element, source.selectors.title).found
    THEN SelectOne(element, source.selectors.title).text
    ELSE OwnText(element)

\* the title with the placeholder for a title selector that matches nothing
PlaceholderTitle(source, element) ==
    IF source.selectors.title = Absent THEN OwnText(element)
    ELSE IF SelectOne(element, source.selectors.title).found
    THEN SelectOne(element, source.selectors.title).text
    ELSE "Unknown"

NonEmpty(t) == t # ""

\* C17 as stated: the items of list-scrape are, in order, the walked elements
\* whose title is not empty, the title being the text the title selector
\* selects when it is configured and matches, and otherwise the element's
\* own text truncated to 100 characters.
C17_StatedTitle ==
    (Returned /\ Aligned) =>
        \A i \in 1..Len(sources_to_scrape) :
            ListPageFetched(sources_to_scrape[i]) =>
                TitlesOf(Scraped[i].items)
                  = SelectSeq([k \in 1..Len(WalkedBy(sources_to_scrape[i])) |->
                                  StatedTitle(sources_to_scrape[i],
                                              WalkedBy(sources_to_scrape[i])[k])],
                              NonEmpty)

\* C17: the items of list-scrape are, in order, the walked elements whose
\* title is not empty, the title being the element's own text truncated to
\* 100 characters when no title selector is configured, the text the title
\* selector selects when it matches, and "Unknown" when it is configured and
\* matches nothing.
C17_Title ==
    (Returned /\ Aligned) =>
        \A i \in 1..Len(sources_to_scrape) :
            ListPageFetched(sources_to_scrape[i]) =>
                TitlesOf(Scraped[i].items)
                  = SelectSeq([k \in 1..Len(WalkedBy(sources_to_scrape[i])) |->
                                  PlaceholderTitle(sources_to_scrape[i],
                                                   WalkedBy(sources_to_scrape[i])[k])],
                              NonEmpty)

\* C17: with a title selector configured, the elements it matched gave their
\* selected text, those it did not match gave "Unknown", and the element
\* whose selected text is empty was discarded.
C17_Witness ==
    /\ Returned
    /\ Len(Scraped) = 1
    /\ ListPageFetched(sources_to_scrape[1])
    /\ sources_to_scrape[1].selectors.title = "h3"
    /\ Len(WalkedBy(sources_to_scrape[1])) = 7
    /\ TitlesOf(Scraped[1].items)
          = <<"Alpha", "Unknown", "Gamma", "Unknown", "Zeta", "Eps">>

\* C17: with no title selector configured, an element's own text of more
\* than 100 characters was cut to 100 and an element with no text was
\* discarded.
C17_WitnessOwnText ==
    /\ Returned
    /\ Len(Scraped) = 1
    /\ ListPageFetched(sources_to_scrape[1])
    /\ sources_to_scrape[1].selectors.title = Absent
    /\ Len(WalkedBy(sources_to_scrape[1])) = 7
    /\ Len(E_bare.text) > TitleLimit
    /\ TitlesOf(Scraped[1].items)
          = <<"Alpha story Jan 1", Take(E_bare.text, TitleLimit), "Gamma",
              "Delta", "Zeta", "Eps">>

----------------------------------------------------------------------------
(* Properties of the event-then-calendar-file executor *)

IsEventSource(source) == source.strategy = "follow_event_then_download_ics"

\* an event source whose list page was fetched and whose item, link and
\* title selectors are configured
EventPageFetched(source) ==
    /\ IsEventSource(source)
    /\ source.list_url # Absent
    /\ Get(source.list_url).ok
    /\ source.selectors.item # Absent
    /\ source.selectors.link # Absent
    /\ source.selectors.title # Absent

\* the elements the event executor walks: the first 10 the item selector matches
EventsOf(source) ==
    IF source.list_url = Absent THEN <<>>
    ELSE Take(Select(Get(source.list_url), source.selectors.item), MaxEvents)

\* the element has a detail-page link
HasLink(source, element) == SelectOne(element, source.selectors.link).found

\* the detail page of an element that has a link
DetailUrl(source, element) ==
    UrlJoin(source.list_url, SelectOne(element, source.selectors.link).href)

\* the calendar link of the detail page of an element, Absent if none
CalendarLink(source, element) ==
    find_ics_on_page(DetailUrl(source, element), source.selectors).ics_url

\* the three ways an element is skipped
NoDetailLink(source, element) == ~HasLink(source, element)

DetailUnfetchable(source, element) ==
    HasLink(source, element) /\ ~Get(DetailUrl(source, element)).ok

NoCalendarLink(source, element) ==
    /\ HasLink(source, element)
    /\ Get(DetailUrl(source, element)).ok
    /\ CalendarLink(source, element) = Absent

\* the detail page was fetched, holds a calendar link, and the calendar file
\* was downloaded with content
Resolved(source, element) ==
    /\ HasLink(source, element)
    /\ Get(DetailUrl(source, element)).ok
    /\ CalendarLink(source, element) # Absent
    /\ HasData(IcsContent(Get(CalendarLink(source, element))))

\* the detail URLs of the items the walked elements are to give, in order
ResolvedUrls(source) ==
    Flat([k \in 1..Len(EventsOf(source)) |->
             IF Resolved(source, EventsOf(source)[k])
             THEN <<DetailUrl(source, EventsOf(source)[k])>>
             ELSE <<>>])

\* the detail URLs of a sequence of items
ItemUrls(items) == [k \in 1..Len(items) |-> items[k].url]

\* C18: in event-then-calendar-file on a fetched list page the source is a
\* success with no error record, and the items are, in order, those of the
\* walked elements whose calendar file was resolved: an element with no
\* detail link, with a detail page that cannot be fetched or with a detail
\* page that holds no calendar link gives no item and costs no other element
\* its item.
C18_ElementSkipped ==
    (Returned /\ Aligned) =>
        \A i \in 1..Len(sources_to_scrape) :
            EventPageFetched(sources_to_scrape[i]) =>
                /\ IsSuccess(Scraped[i])
                /\ ErrorsOf(sources_to_scrape[i].id) = <<>>
                /\ ItemUrls(Scraped[i].items) = ResolvedUrls(sources_to_scrape[i])

\* C18: the walked elements held one of each kind of skipped element, after
\* an element that gave an item and before another one that gave an item.
C18_Witness ==
    /\ Returned
    /\ Len(Scraped) = 1
    /\ EventPageFetched(sources_to_scrape[1])
    /\ EventsOf(sources_to_scrape[1])
          = <<E_full, E_blank, E_bare, E_dead, E_nocal, E_badcal, E_self>>
    /\ Resolved(sources_to_scrape[1], E_full)
    /\ NoDetailLink(sources_to_scrape[1], E_bare)
    /\ DetailUnfetchable(sources_to_scrape[1], E_dead)
    /\ NoCalendarLink(sources_to_scrape[1], E_nocal)
    /\ Resolved(sources_to_scrape[1], E_self)
    /\ IsSuccess(Scraped[1])
    /\ ItemUrls(Scraped[1].items)
          = <<"http://a/n/1", "http://a/n/2", "http://a/news/">>

\* the fetches of one kind made for the source id
KindFetchesOf(id, kind) ==
    SelectSeq(fetch_log, LAMBDA f : f.source_id = id /\ f.kind = kind)

\* item is the item of a walked element of source: the detail page it names
\* was fetched, its calendar link is the one found there, and the calendar
\* file was fetched and passed the validation of download_ics
FromResolvedEvent(source, item) ==
    /\ {"url", "ics_url"} \subseteq DOMAIN item
    /\ \E k \in 1..Len(EventsOf(source)) :
          /\ HasLink(source, EventsOf(source)[k])
          /\ item.url = DetailUrl(source, EventsOf(source)[k])
          /\ item.ics_url = CalendarLink(source, EventsOf(source)[k])
    /\ Get(item.url).ok
    /\ InSeq(item.url, UrlsOf(KindFetchesOf(source.id, "detail")))
    /\ item.ics_url # Absent
    /\ InSeq(item.ics_url, UrlsOf(KindFetchesOf(source.id, "ics")))
    /\ IcsContent(Get(item.ics_url)) # Absent

\* C19: event-then-calendar-file returns at most 10 items; each has a url
\* and an ics_url and is the item of one of the walked elements, whose
\* detail page was fetched, whose calendar link was found there and whose
\* calendar file passed the validation; rejected calendar content gives no
\* item.
C19_EventItems ==
    (Returned /\ Aligned) =>
        \A i \in 1..Len(sources_to_scrape) :
            (IsEventSource(sources_to_scrape[i]) /\ IsSuccess(Scraped[i])) =>
                /\ Scraped[i].items_found <= MaxEvents
                /\ \A k \in 1..Len(Scraped[i].items) :
                      FromResolvedEvent(sources_to_scrape[i], Scraped[i].items[k])

\* C19: an element whose calendar content was rejected gave no item, and the
\* elements around it gave items that name their detail page and calendar
\* file.
C19_Witness ==
    /\ Returned
    /\ Len(Scraped) = 1
    /\ EventPageFetched(sources_to_scrape[1])
    /\ InSeq(E_badcal, EventsOf(sources_to_scrape[1]))
    /\ InSeq("http://a/n/bad.ics", UrlsOf(KindFetchesOf("id-1", "ics")))
    /\ IcsContent(Get("http://a/n/bad.ics")) = Absent
    /\ ~InSeq("http://a/n/5", ItemUrls(Scraped[1].items))
    /\ Scraped[1].items_found = 3
    /\ Scraped[1].items[1].url = "http://a/n/1"
    /\ Scraped[1].items[1].ics_url \in {"http://a/n/cal.ics",
                                         "http://a/files/Event.ICAL"}

\* C19: a list page of more than 10 elements was walked up to the tenth.
C19_WitnessCap ==
    /\ Returned
    /\ Len(Scraped) = 1
    /\ EventPageFetched(sources_to_scrape[1])
    /\ Len(Select(Get(sources_to_scrape[1].list_url),
                  sources_to_scrape[1].selectors.item)) > MaxEvents
    /\ Len(KindFetchesOf("id-1", "detail")) = 5
    /\ Scraped[1].items_found = 5

----------------------------------------------------------------------------
(* Properties of the stored content *)

\* data is at most limit characters long and is how the body of url begins
PrefixOfBody(data, url, limit) ==
    /\ Len(data) <= limit
    /\ StartsWith(Get(url).text, data)

\* C20: the ics_data of every item of event-then-calendar-file is at most
\* 1000 characters and that of every item of calendar-subscription discovery
\* at most 2000 characters, each being how the fetched body begins; the
\* description of every item of RSS discovery is at most 500 characters.
C20_StoredContentBounded ==
    (Returned /\ Aligned) =>
        \A i \in 1..Len(sources_to_scrape) :
            IsSuccess(Scraped[i]) =>
                \A k \in 1..Len(Scraped[i].items) :
                    /\ IsEventSource(sources_to_scrape[i]) =>
                            PrefixOfBody(Scraped[i].items[k].ics_data,
                                         Scraped[i].items[k].ics_url, EventIcsLimit)
                    /\ sources_to_scrape[i].strategy = "discover_ics_subscribe_link" =>
                            PrefixOfBody(Scraped[i].items[k].ics_data,
                                         Scraped[i].items[k].ics_url,
                                         SubscribeIcsLimit)
                    /\ sources_to_scrape[i].strategy = "discover_rss_on_page" =>
                            Len(Scraped[i].items[k].description) <= SummaryLimit

\* C20: a calendar file longer than both limits was stored cut to 1000
\* characters by the event executor.
C20_Witness ==
    /\ Returned
    /\ Len(Scraped) = 1
    /\ IsEventSource(sources_to_scrape[1])
    /\ IsSuccess(Scraped[1])
    /\ \E k \in 1..Len(Scraped[1].items) :
          /\ Len(Get(Scraped[1].items[k].ics_url).text) > SubscribeIcsLimit
          /\ Len(Scraped[1].items[k].ics_data) = EventIcsLimit

\* C20: the same file was stored cut to 2000 characters by calendar-
\* subscription discovery.
C20_WitnessSubscribe ==
    /\ Returned
    /\ Len(Scraped) = 1
    /\ sources_to_scrape[1].strategy = "discover_ics_subscribe_link"
    /\ IsSuccess(Scraped[1])
    /\ \E k \in 1..Len(Scraped[1].items) :
          /\ Len(Get(Scraped[1].items[k].ics_url).text) > SubscribeIcsLimit
          /\ Len(Scraped[1].items[k].ics_data) = SubscribeIcsLimit

\* C20: a feed summary of more than 500 characters was stored cut to 500.
C20_WitnessSummary ==
    /\ Returned
    /\ Len(Scraped) = 1
    /\ sources_to_scrape[1].strategy = "discover_rss_on_page"
    /\ IsSuccess(Scraped[1])
    /\ Len(N_long.summary) > SummaryLimit
    /\ \E k \in 1..Len(Scraped[1].items) :
          Scraped[1].items[k].description = Take(N_long.summary, SummaryLimit)

----------------------------------------------------------------------------
(* Properties of the order of the fetches *)

\* the place of the source id in the configuration
PlaceOf(id) == CHOOSE i \in 1..Len(config) : config[i].id = id

\* the fetches of an event source are in order: the list page first and
\* only there, and each calendar file right after the detail page that
\* links to it
EventFetchOrder(source, fetches) ==
    \A k \in 1..Len(fetches) :
        /\ (fetches[k].kind = "page") = (k = 1)
        /\ fetches[k].kind = "ics" =>
                /\ fetches[k - 1].kind = "detail"
                /\ fetches[k].url
                      = find_ics_on_page(fetches[k - 1].url, source.selectors).ics_url

\* C21: at every moment of a run the fetches issued so far are grouped by
\* source in configuration order, no fetch of a source coming after a fetch
\* of a later source; the fetches of an event source begin with its list
\* page, and each calendar file follows the detail page that links to it.
C21_Sequential ==
    /\ \A p \in 1..(Len(fetch_log) - 1) :
          PlaceOf(fetch_log[p].source_id) <= PlaceOf(fetch_log[p + 1].source_id)
    /\ \A i \in 1..Len(config) :
          IsEventSource(config[i]) =>
              EventFetchOrder(config[i], FetchesOf(config[i].id))

\* C21: two sources were scraped, the first fetched a list page, detail
\* pages and calendar files, and every fetch of the second came after them.
C21_Witness ==
    /\ Returned
    /\ Len(Scraped) = 2
    /\ IsEventSource(config[1])
    /\ Len(KindFetchesOf("id-1", "detail")) > 1
    /\ Len(KindFetchesOf("id-1", "ics")) > 1
    /\ Len(FetchesOf("id-2")) > 1
    /\ fetch_log = FetchesOf("id-1") \o FetchesOf("id-2")

----------------------------------------------------------------------------
(* Properties of a failed page fetch *)

\* the one fetch of the page of the source
OnePageFetch(source) == Logged(source.id, <<Fetch("page", UrlOf(source))>>)

\* C22: a source whose discovery or list page cannot be fetched is asked for
\* that page once and for nothing else: at no moment of the run does the log
\* hold a second fetch for it, and once it is scraped the log holds exactly
\* the one failed fetch.
C22_NoRetry ==
    /\ \A i \in 1..Len(config) :
          PageFetchFails(config[i]) => Len(FetchesOf(config[i].id)) <= 1
    /\ \A i \in 1..Len(Scraped) :
          PageFetchFails(sources_to_scrape[i]) =>
              FetchesOf(sources_to_scrape[i].id) = OnePageFetch(sources_to_scrape[i])

\* C22: a feed-discovery source whose page cannot be fetched was scraped.
C22_Witness ==
    /\ Returned
    /\ \E i \in 1..Len(Scraped) :
          /\ PageFetchFails(sources_to_scrape[i])
          /\ sources_to_scrape[i].strategy = "discover_rss_on_page"
          /\ Len(FetchesOf(sources_to_scrape[i].id)) = 1

\* C22: an event source whose list page cannot be fetched was scraped.
C22_WitnessEvent ==
    /\ Returned
    /\ \E i \in 1..Len(Scraped) :
          /\ PageFetchFails(sources_to_scrape[i])
          /\ IsEventSource(sources_to_scrape[i])
          /\ Len(FetchesOf(sources_to_scrape[i].id)) = 1

----------------------------------------------------------------------------
(* Properties of the order of the items *)

\* a is b with some of its members left out
RECURSIVE IsSubseq(_, _)
IsSubseq(a, b) ==
    IF Len(a) = 0 THEN TRUE
    ELSE IF Len(b) = 0 THEN FALSE
    ELSE IF Head(a) = Head(b) THEN IsSubseq(Tail(a), Tail(b))
    ELSE IsSubseq(a, Tail(b))

\* the titles of the elements a list-scrape source walks, in page order
WalkedTitles(source) ==
    [k \in 1..Len(WalkedBy(source)) |->
        PlaceholderTitle(source, WalkedBy(source)[k])]

\* feed URL and title of each entry a feed yields, in feed order
FeedKeys(feed_url) ==
    [k \in 1..Yield(feed_url) |->
        <<feed_url, GetAttr(Parse(feed_url).entries[k].title, "Unknown")>>]

\* feed URL and title of each item
ItemKeys(items) == [k \in 1..Len(items) |-> <<items[k].feed_url, items[k].title>>]

\* the detail URLs of the elements an event source walks, in page order
WalkedDetailUrls(source) ==
    [k \in 1..Len(EventsOf(source)) |->
        IF HasLink(source, EventsOf(source)[k])
        THEN DetailUrl(source, EventsOf(source)[k])
        ELSE ""]

\* C25: the items of a SourceResult are in discovery order: the titles of a
\* list-scrape result are those of the first 20 matched elements with some
\* left out, in page order; the items of a feed-discovery result are the
\* entries of the first candidate feed in entry order, then those of the
\* second, and so on; the URLs of an event result are the detail URLs of the
\* first 10 elements with some left out, in page order.
C25_DiscoveryOrder ==
    (Returned /\ Aligned) =>
        \A i \in 1..Len(sources_to_scrape) :
            /\ ListPageFetched(sources_to_scrape[i]) =>
                  IsSubseq(TitlesOf(Scraped[i].items),
                           WalkedTitles(sources_to_scrape[i]))
            /\ RssPageFetched(sources_to_scrape[i]) =>
                  LET candidates == CandidatesOf(sources_to_scrape[i])
                  IN  ItemKeys(Scraped[i].items)
                        = Flat([k \in 1..Len(candidates) |-> FeedKeys(candidates[k])])
            /\ EventPageFetched(sources_to_scrape[i]) =>
                  IsSubseq(ItemUrls(Scraped[i].items),
                           WalkedDetailUrls(sources_to_scrape[i]))

\* C25: a list-scrape source returned several items with different titles,
\* fewer than the elements it walked.
C25_Witness ==
    /\ Returned
    /\ Aligned
    /\ \E i \in 1..Len(sources_to_scrape) :
          /\ ListPageFetched(sources_to_scrape[i])
          /\ Len(Scraped[i].items) > 2
          /\ Len(Scraped[i].items) < Len(WalkedBy(sources_to_scrape[i]))
          /\ Scraped[i].items[1].title # Scraped[i].items[2].title

\* C25: a feed-discovery source returned the entries of two feeds, several
\* of the first one.
C25_WitnessFeeds ==
    /\ Returned
    /\ Aligned
    /\ \E i \in 1..Len(sources_to_scrape) :
          /\ RssPageFetched(sources_to_scrape[i])
          /\ Len(Scraped[i].items) > 2
          /\ Scraped[i].items[1].feed_url = Scraped[i].items[2].feed_url
          /\ Scraped[i].items[1].title # Scraped[i].items[2].title
          /\ Scraped[i].items[1].feed_url
                # Scraped[i].items[Len(Scraped[i].items)].feed_url

\* C25: an event source returned several events with some of the elements
\* left out.
C25_WitnessEvents ==
    /\ Returned
    /\ Aligned
    /\ \E i \in 1..Len(sources_to_scrape) :
          /\ EventPageFetched(sources_to_scrape[i])
          /\ Len(Scraped[i].items) > 1
          /\ Len(Scraped[i].items) < Len(EventsOf(sources_to_scrape[i]))
          /\ Scraped[i].items[1].url # Scraped[i].items[2].url

----------------------------------------------------------------------------
(* Properties of the number of fetches *)

\* how many fetches of the kind the source has caused so far
Count(id, kind) == Len(KindFetchesOf(id, kind))

\* the bounds as stated: every source of a known strategy fetches its page
\* exactly once
StatedBounds(source) ==
    CASE source.strategy = "scrape_list" ->
            Len(FetchesOf(source.id)) = 1
      [] source.strategy = "discover_rss_on_page" ->
            /\ Count(source.id, "page") = 1
            /\ Count(source.id, "feed") <= MaxFeeds
      [] source.strategy = "discover_ics_subscribe_link" ->
            /\ Count(source.id, "page") = 1
            /\ Count(source.id, "ics") <= MaxCalendars
      [] source.strategy = "follow_event_then_download_ics" ->
            /\ Count(source.id, "page") = 1
            /\ Count(source.id, "detail") <= MaxEvents
            /\ Count(source.id, "ics") <= MaxEvents
      [] OTHER -> FetchesOf(source.id) = <<>>

\* C26 as stated: once the run has returned, every source has caused the
\* number of fetches of its strategy, its page fetched exactly once.
C26_StatedBounds ==
    (Returned /\ Aligned) =>
        \A i \in 1..Len(sources_to_scrape) : StatedBounds(sources_to_scrape[i])

\* the most fetches of each kind a source of the strategy causes
MostFetches(strategy, kind) ==
    CASE strategy = "scrape_list" /\ kind = "page" -> 1
      [] strategy = "discover_rss_on_page" /\ kind = "page" -> 1
      [] strategy = "discover_rss_on_page" /\ kind = "feed" -> MaxFeeds
      [] strategy = "discover_ics_subscribe_link" /\ kind = "page" -> 1
      [] strategy = "discover_ics_subscribe_link" /\ kind = "ics" -> MaxCalendars
      [] strategy = "follow_event_then_download_ics" /\ kind = "page" -> 1
      [] strategy = "follow_event_then_download_ics" /\ kind = "detail" -> MaxEvents
      [] strategy = "follow_event_then_download_ics" /\ kind = "ics" -> MaxEvents
      [] OTHER -> 0

\* the source has caused no more fetches of any kind than its strategy allows
WithinBounds(source) ==
    \A kind \in {"page", "feed", "detail", "ics"} :
        Count(source.id, kind) <= MostFetches(source.strategy, kind)

\* the page fetches of a source that has been scraped: one when its URL key
\* is configured, none when it is missing or the strategy is unknown
PageFetchesDue(source) ==
    IF source.strategy \in KnownStrategies /\ UrlOf(source) # Absent THEN 1 ELSE 0

\* C26: at every moment of a run each source has caused at most 1 page
\* fetch, and at most 3 feed parses (RSS-discovery), 2 calendar fetches
\* (calendar-subscription-discovery), 10 detail and 10 calendar fetches
\* (event-then-calendar-file), and nothing else; a scraped source has fetched
\* its page exactly once when its URL key is configured and never when it is
\* missing or the strategy is unknown; and a run that has entered the loop
\* returns.
C26_FetchBounds ==
    /\ [](\A i \in 1..Len(config) : WithinBounds(config[i]))
    /\ [](\A i \in 1..Len(Scraped) :
            Count(sources_to_scrape[i].id, "page") = PageFetchesDue(sources_to_scrape[i]))
    /\ (pc = "loop" ~> Returned)

\* C26: a run over two sources has returned: an RSS-discovery source that
\* parsed 3 feeds and an event source that fetched several detail pages and
\* calendar files.
C26_Witness ==
    /\ Returned
    /\ Len(Scraped) = 2
    /\ \E i \in 1..2 :
          /\ sources_to_scrape[i].strategy = "discover_rss_on_page"
          /\ Count(sources_to_scrape[i].id, "page") = 1
          /\ Count(sources_to_scrape[i].id, "feed") = MaxFeeds
    /\ \E i \in 1..2 :
          /\ IsEventSource(sources_to_scrape[i])
          /\ Count(sources_to_scrape[i].id, "page") = 1
          /\ Count(sources_to_scrape[i].id, "detail") > 2
          /\ Count(sources_to_scrape[i].id, "ics") > 2

\* C26: a list-scrape source with no list_url was scraped and fetched nothing.
C26_WitnessNoUrl ==
    /\ Returned
    /\ \E i \in 1..Len(Scraped) :
          /\ sources_to_scrape[i].strategy = "scrape_list"
          /\ sources_to_scrape[i].list_url = Absent
          /\ FetchesOf(sources_to_scrape[i].id) = <<>>

----------------------------------------------------------------------------
(* Properties of a configuration that cannot be loaded *)

\* C27: when the configuration file cannot be read or parsed the scraper
\* holds an empty source list, and every call on it, whatever ids it asks
\* for, returns a report with no SourceResult, no error and total_items 0,
\* having fetched nothing.
C27_UnloadableConfig ==
    load_status # "ok" =>
        /\ config = <<>>
        /\ fetch_log = <<>>
        /\ Returned => results = EmptyReport

\* C27: the file is cut off after its first source and a call that asked
\* for that source has returned.
C27_Witness ==
    /\ load_status = "malformed"
    /\ Returned
    /\ source_ids = Filter(<<"id-1">>)

\* C27: the file cannot be opened and a call with no filter has returned.
C27_WitnessUnreadable ==
    /\ load_status = "unreadable"
    /\ Returned
    /\ source_ids = NoFilter

----------------------------------------------------------------------------
(* Properties of repeated calls *)

\* the SourceResults with the id
ResultsOf(rs, id) == SelectSeq(rs, LAMBDA r : r.id = id)

\* the ids scraped by both the running call and the call before
ScrapedTwice ==
    {id \in {config[i].id : i \in 1..Len(config)} :
        /\ Len(ResultsOf(Scraped, id)) > 0
        /\ Len(ResultsOf(earlier.report.sources_scraped, id)) > 0}

C23_WitnessCapture ==
    /\ Returned
    /\ earlier.any
    /\ \E id \in ScrapedTwice : Len(CapturesOf(id)) = 1

\* the report a call builds: one SourceResult per source the filter keeps,
\* in configuration order, its errors those of these SourceResults, its
\* item count their sum
OwnReport ==
    /\ IdsOf(Scraped) = IdsOf(SourcesToScrape(config, source_ids))
    /\ IdsOf(SelectSeq(Scraped, IsError)) = [k \in 1..Len(results.errors) |->
                                                results.errors[k].source_id]
    /\ results.total_items = SumFound(Scraped)

\* C24: no step of any call changes the loaded configuration, and every
\* report returned, after any sequence of calls on the scraper, holds the
\* SourceResults, errors and item count of its own call only.
C24_FreshReport ==
    /\ [](Returned => OwnReport)
    /\ [][config' = config]_vars

\* C24: a call that scraped one source returned after a call that scraped
\* two, one of them with an error.
C24_Witness ==
    /\ Returned
    /\ earlier.any
    /\ Len(earlier.report.sources_scraped) = 2
    /\ Len(earlier.report.errors) = 1
    /\ earlier.report.total_items > 0
    /\ Len(Scraped) = 1

----------------------------------------------------------------------------
(* The helpers of the scraper, each called on its own *)

Applied(op, args, result) == [op |-> op, args |-> args, result |-> result]

\* a scraper that was constructed and has made no call yet
HelperInit ==
    /\ config = <<>>
    /\ pc = "idle"
    /\ source_ids = NoFilter
    /\ sources_to_scrape = <<>>
    /\ idx = 1
    /\ results = EmptyReport
    /\ fetch_log = <<>>
    /\ debug_calls = <<>>
    /\ applied = NoCall
    /\ earlier = NoEarlier
    /\ load_status = "ok"

\* the URLs download_ics is called with: every URL of the web and a dead one
IcsUrls == DOMAIN Web \cup {"http://a/iCal/none"}

\* self.download_ics(ics_url)
Apply_download_ics(ics_url) ==
    /\ applied' = Applied("download_ics", <<ics_url>>, download_ics(ics_url).data)
    /\ UNCHANGED <<config, pc, source_ids, sources_to_scrape, idx, results,
                   fetch_log, debug_calls, earlier, load_status>>

\* the media type a Content-Type header declares: what stands before ";"
DeclaredType(ctype) ==
    IF FirstIndex(";", ctype) = 0 THEN ctype
    ELSE Take(ctype, FirstIndex(";", ctype) - 1)

\* the response download_ics got for the URL it was called with
Downloaded == Get(applied.args[1])

\* C11: download_ics returns the body of the response exactly when the fetch
\* succeeded and the declared content type is text/calendar or the body holds
\* BEGIN:VCALENDAR; a response with neither, and a failed fetch, give None.
C11_CalendarValidation ==
    applied.op = "download_ics" =>
        IF /\ Downloaded.ok
           /\ \/ DeclaredType(Downloaded.ctype) = "text/calendar"
              \/ Contains("BEGIN:VCALENDAR", Downloaded.text)
        THEN applied.result = Downloaded.text
        ELSE applied.result = Absent

\* C11: a text/calendar response without the marker was accepted.
C11_Witness ==
    /\ applied.op = "download_ics"
    /\ Downloaded.ok
    /\ StartsWith(Downloaded.ctype, "text/calendar")
    /\ ~Contains("BEGIN:VCALENDAR", Downloaded.text)
    /\ applied.result = "not a calendar"

\* C11: a response that is neither declared a calendar nor holds the marker
\* was rejected.
C11_WitnessRejected ==
    /\ applied.op = "download_ics"
    /\ Downloaded.ok
    /\ Downloaded.ctype = "text/html"
    /\ applied.result = Absent

\* the references and the base URLs the resolvers are called with
Refs ==
    {"", "c", "/c", "c/e", "two.xml", "/RSS/one", "//h/x", "http://a/b",
     "https://x/y", "mailto:x"}

Bases ==
    {"http://a/b", "http://a/b/", "http://a/b/d", "http://a", "https://x/y",
     "http://a/news/"}

\* urljoin(base, url), the call the executors resolve a reference with
Apply_urljoin(base, url) ==
    /\ applied' = Applied("urljoin", <<url, base>>, UrlJoin(base, url))
    /\ UNCHANGED <<config, pc, source_ids, sources_to_scrape, idx, results,
                   fetch_log, debug_calls, earlier, load_status>>

\* self.resolve_url(link, base_url) of the emergency alert monitor
Apply_resolve_url(link, base_url) ==
    /\ applied' = Applied("resolve_url", <<link, base_url>>,
                          resolve_url(link, base_url))
    /\ UNCHANGED <<config, pc, source_ids, sources_to_scrape, idx, results,
                   fetch_log, debug_calls, earlier, load_status>>

\* the reference and the base of a resolver call
RefOf == applied.args[1]
BaseOf == applied.args[2]

\* scheme and host of a base URL
SchemeAndHost(base) == UrlScheme(base) \o "://" \o UrlNetloc(base)

\* base up to and with the last "/" of its path
DirOf(base) ==
    IF UrlPath(base) = "" THEN base \o "/" ELSE Take(base, LastIndex("/", base))

\* the readings of "joined onto the path of the base": after its last "/",
\* after the whole of it, or after the whole of it with a "/" between
JoinedOnto(base, ref) ==
    {DirOf(base) \o ref, base \o ref, RStripSlash(base) \o "/" \o ref}

C12_WitnessRelative ==
    /\ applied.op = "urljoin"
    /\ RefOf = "c/e"
    /\ BaseOf = "http://a/b/d"
    /\ applied.result = "http://a/b/c/e"

\* a call of either resolver
IsResolution == applied.op \in {"urljoin", "resolve_url"}

\* C13 as stated, read as resolve(reference, base): "https://x/y" against
\* "http://a/b" gives "http://a/b", "/c" against "http://a/b/d" gives
\* "http://a/c", "c" against "http://a/b/" gives "http://a/b/c".
C13_StatedResults ==
    IsResolution =>
        /\ RefOf = "https://x/y" /\ BaseOf = "http://a/b"
                => applied.result = "http://a/b"
        /\ RefOf = "/c" /\ BaseOf = "http://a/b/d" => applied.result = "http://a/c"
        /\ RefOf = "c" /\ BaseOf = "http://a/b/" => applied.result = "http://a/b/c"

\* C13: with the reference first and the base second, "http://a/b" against
\* "https://x/y" gives "http://a/b", "/c" against "http://a/b/d" gives
\* "http://a/c", "c" against "http://a/b/" gives "http://a/b/c".
C13_Results ==
    IsResolution =>
        /\ RefOf = "http://a/b" /\ BaseOf = "https://x/y"
                => applied.result = "http://a/b"
        /\ RefOf = "/c" /\ BaseOf = "http://a/b/d" => applied.result = "http://a/c"
        /\ RefOf = "c" /\ BaseOf = "http://a/b/" => applied.result = "http://a/b/c"

\* C13: the executors' resolver passed an absolute reference through.
C13_Witness ==
    /\ applied.op = "urljoin"
    /\ RefOf = "http://a/b"
    /\ BaseOf = "https://x/y"
    /\ applied.result = "http://a/b"

\* C13: resolve_url resolved the root-relative example.
C13_WitnessRoot ==
    /\ applied.op = "resolve_url"
    /\ RefOf = "/c"
    /\ BaseOf = "http://a/b/d"
    /\ applied.result = "http://a/c"

\* what save_debug_html may find on disk: all is writable, the debug
\* directory cannot be made, or the snapshot file cannot be written
Disks == {"writable", "no_debug_dir", "no_file"}

\* save_debug_html: os.makedirs stands before the try block, the write of
\* the file stands inside it
save_debug_html(source, html_content, disk) ==
    IF disk = "no_debug_dir"
    THEN [raised |-> TRUE, saved |-> <<>>, logged |-> <<>>]
    ELSE IF disk = "no_file"
    THEN [raised |-> FALSE, saved |-> <<>>,
          logged |-> <<"Error saving debug HTML">>]
    ELSE [raised |-> FALSE, saved |-> <<<<source.id, html_content>>>>,
          logged |-> <<"Saved debug HTML">>]

\* the snapshots scrape_list hands over: the text of a fetched list page
Snapshots == {Web[u].text : u \in {"http://a/news/", "http://a/big/"}}

\* self.save_debug_html(source, response.text)
Apply_save_debug_html(source, html_content, disk) ==
    /\ applied' = Applied("save_debug_html", <<source.id, html_content, disk>>,
                          save_debug_html(source, html_content, disk))
    /\ UNCHANGED <<config, pc, source_ids, sources_to_scrape, idx, results,
                   fetch_log, debug_calls, earlier, load_status>>

\* C14: save_debug_html returns to its caller whatever fails, the making of
\* the debug directory or the write of the file.
C14_DebugCaptureNeverRaises ==
    applied.op = "save_debug_html" => ~applied.result.raised

----------------------------------------------------------------------------
(* VideoProcessor.process_video of src/scrapers/video-discovery.py.  The    *)
(* external tools (yt-dlp, ffmpeg, the transcription API) and the file       *)
(* system end as the environment decides.                                    *)

\* Python's None
None == "<None>"

VideoInfo(id, url, title) == [id |-> id, url |-> url, title |-> title]

\* the videos handed to process_video: a full record, and one per missing key
VideoInfos ==
    {VideoInfo("v1", "http://v/1", "Council"),
     VideoInfo(Absent, "http://v/1", "Council"),
     VideoInfo("v1", Absent, "Council"),
     VideoInfo("v1", "http://v/1", Absent)}

\* how subprocess.run of a tool ends: return code 0 with the file written,
\* a failure (another return code, or no file), or an exception (timeout)
ToolOutcomes == {"ok", "failed", "raised"}

\* how the transcription ends: a transcript, no API key, or an exception
ApiOutcomes == {"ok", "no_key", "raised"}

\* how the cleanup ends: both calls succeed, shutil.rmtree raises, or
\* tempfile.mkdtemp raises
CleanupOutcomes == {"ok", "rmtree_raises", "mkdtemp_raises"}

Envs ==
    [download : ToolOutcomes, ffmpeg : ToolOutcomes, whisper : ApiOutcomes,
     cleanup : CleanupOutcomes]

\* self.temp_dir: its path, whether the directory exists, and the paths
\* shutil.rmtree has removed
TempDir(path, exists) == [path |-> path, exists |-> exists]

\* self.temp_dir when process_video is called: the directory __init__ or
\* the call before made, or the path left behind when mkdtemp raised
TempDirs == {TempDir("/tmp/hc_video_1", TRUE), TempDir("/tmp/hc_video_1", FALSE)}

\* tempfile.mkdtemp: a directory that was not there before
mkdtemp(old) == TempDir(old.path \o "x", TRUE)

\* download_video: a missing id raises again in the handler's message
download_video(video_info, temp_dir, env) ==
    IF video_info.id = Absent
    THEN [raised |-> TRUE, path |-> None]
    ELSE IF video_info.url = Absent \/ video_info.title = Absent
            \/ env.download # "ok"
    THEN [raised |-> FALSE, path |-> None]
    ELSE [raised |-> FALSE, path |-> temp_dir.path \o "/" \o video_info.id \o ".mp4"]

\* os.path.splitext(os.path.basename(video_path))[0]
VideoName(video_path) ==
    Take(Drop(video_path, LastIndex("/", video_path)),
         Len(video_path) - LastIndex("/", video_path) - 4)

extract_audio(video_path, temp_dir, env) ==
    IF env.ffmpeg = "ok"
    THEN temp_dir.path \o "/" \o VideoName(video_path) \o ".wav"
    ELSE None

transcribe_audio(audio_path, video_info, env) ==
    IF env.whisper = "ok"
    THEN "data/transcripts/" \o video_info.id \o "_transcript.txt"
    ELSE None

\* the result dict; a key that was never assigned is Absent, and
\* processing_time is assigned after the finally block only
Result(video_info, status, transcript_path, error, processing_time) ==
    [video_info |-> video_info, status |-> status,
     transcript_path |-> transcript_path, error |-> error,
     processing_time |-> processing_time]

\* the finally block: the directory is removed and made anew when it
\* exists; an exception of either call is logged and swallowed
Cleanup(temp_dir, env) ==
    IF ~temp_dir.exists
    THEN [temp_dir |-> temp_dir, removed |-> <<>>, logged |-> <<>>]
    ELSE IF env.cleanup = "rmtree_raises"
    THEN [temp_dir |-> temp_dir, removed |-> <<>>, logged |-> <<"Cleanup error">>]
    ELSE IF env.cleanup = "mkdtemp_raises"
    THEN [temp_dir |-> TempDir(temp_dir.path, FALSE),
          removed |-> <<temp_dir.path>>, logged |-> <<"Cleanup error">>]
    ELSE [temp_dir |-> mkdtemp(temp_dir), removed |-> <<temp_dir.path>>,
          logged |-> <<>>]

\* what a call leaves: the result returned, the steps called in order, and
\* the temporary directory after the finally block
Processed(result, calls, temp_dir, env) ==
    [result |-> result, calls |-> calls, cleanup |-> Cleanup(temp_dir, env)]

\* AfterTranscribe that reports success whatever transcribe_audio returned
AfterTranscribe_AlwaysSuccess(video_info, temp_dir, env, transcript_path) ==
    Processed(Result(video_info, "success", transcript_path, Absent, "seconds"),
              <<"download_video", "extract_audio", "transcribe_audio">>,
              temp_dir, env)

\* process_video from the return of transcribe_audio
AfterTranscribe(video_info, temp_dir, env, transcript_path) ==
    Processed(IF transcript_path # None
              THEN Result(video_info, "success", transcript_path, Absent, "seconds")
              ELSE Result(video_info, "failed", None,
                          "Failed to transcribe audio", "seconds"),
              <<"download_video", "extract_audio", "transcribe_audio">>,
              temp_dir, env)

\* process_video from the return of extract_audio
AfterExtract(video_info, temp_dir, env, audio_path) ==
    IF audio_path = None
    THEN Processed(Result(video_info, "failed", None, "Failed to extract audio",
                          None),
                   <<"download_video", "extract_audio">>, temp_dir, env)
    ELSE AfterTranscribe(video_info, temp_dir, env,
                         transcribe_audio(audio_path, video_info, env))

\* AfterDownload that goes on to the audio without a downloaded file
AfterDownload_GoOn(video_info, temp_dir, env, down) ==
    IF down.raised
    THEN Processed(Result(video_info, "failed", None, "'id'", "seconds"),
                   <<"download_video">>, temp_dir, env)
    ELSE AfterExtract(video_info, temp_dir, env,
                      extract_audio(temp_dir.path \o "/none.mp4", temp_dir, env))

\* process_video from the return of download_video
AfterDownload(video_info, temp_dir, env, down) ==
    IF down.raised
    THEN Processed(Result(video_info, "failed", None, "'id'", "seconds"),
                   <<"download_video">>, temp_dir, env)
    ELSE IF down.path = None
    THEN Processed(Result(video_info, "failed", None, "Failed to download video",
                          None),
                   <<"download_video">>, temp_dir, env)
    ELSE AfterExtract(video_info, temp_dir, env,
                      extract_audio(down.path, temp_dir, env))

process_video(video_info, temp_dir, env) ==
    AfterDownload(video_info, temp_dir, env,
                  download_video(video_info, temp_dir, env))

\* self.process_video(video)
Apply_process_video(video_info, temp_dir, env) ==
    /\ applied' = Applied("process_video", <<video_info, temp_dir, env>>,
                          process_video(video_info, temp_dir, env))
    /\ UNCHANGED <<config, pc, source_ids, sources_to_scrape, idx, results,
                   fetch_log, debug_calls, earlier, load_status>>

\* the calls of run_video_discovery on one VideoProcessor, one after another
VideoNext ==
    \E video_info \in VideoInfos, temp_dir \in TempDirs, env \in Envs :
        Apply_process_video(video_info, temp_dir, env)

VideoSpec == HelperInit /\ [][VideoNext]_vars

\* process_video has returned
VideoProcessed == applied.op = "process_video"

\* C28: every result process_video returns has status 'success' exactly when
\* its transcript_path is set, and carries an error message exactly when its
\* status is 'failed'; its status is one of the two.
C28_StatusMatchesTranscript ==
    VideoProcessed =>
        /\ applied.result.result.status \in {"success", "failed"}
        /\ (applied.result.result.status = "success")
              <=> (applied.result.result.transcript_path # None)
        /\ (applied.result.result.error # Absent)
              <=> (applied.result.result.status = "failed")

\* C28: a video was transcribed and its result returned.
C28_Witness ==
    /\ VideoProcessed
    /\ applied.result.result.status = "success"
    /\ applied.result.result.transcript_path = "data/transcripts/v1_transcript.txt"

\* C28: the transcription failed after the audio was extracted.
C28_WitnessFailed ==
    /\ VideoProcessed
    /\ applied.result.result.status = "failed"
    /\ applied.result.result.error = "Failed to transcribe audio"

\* the steps of the pipeline in their order
Pipeline == <<"download_video", "extract_audio", "transcribe_audio">>

\* the steps ran in order and stopped at the first one that failed
StepsInOrder ==
    LET video_info == applied.args[1]
        temp_dir   == applied.args[2]
        env        == applied.args[3]
        calls      == applied.result.calls
        downloaded == /\ video_info.id # Absent
                      /\ video_info.url # Absent
                      /\ video_info.title # Absent
                      /\ env.download = "ok"
    IN  /\ calls = Take(Pipeline, Len(calls))
        /\ Len(calls) >= 1
        /\ Len(calls) >= 2 <=> downloaded
        /\ Len(calls) = 3 <=> (downloaded /\ env.ffmpeg = "ok")
        /\ applied.result.result.status = "success" =>
              (Len(calls) = 3 /\ env.whisper = "ok")

\* the temporary directory was removed and replaced by a fresh one
Replaced ==
    /\ applied.result.cleanup.removed = <<applied.args[2].path>>
    /\ applied.result.cleanup.temp_dir.exists
    /\ applied.result.cleanup.temp_dir.path # applied.args[2].path

\* C29 as stated: on every path the temporary directory is removed and
\* replaced by a fresh one before the result is returned.
C29_StatedCleanup == VideoProcessed => (StepsInOrder /\ Replaced)

\* C29: the steps run in the order download, extract audio, transcribe and
\* stop at the first that fails; on every path the cleanup is attempted
\* before the result is returned: the temporary directory is removed and
\* replaced by a fresh one exactly when it exists and neither rmtree nor
\* mkdtemp raises, and the result is returned whatever the cleanup did.
C29_PipelineAndCleanup ==
    VideoProcessed =>
        /\ StepsInOrder
        /\ Replaced <=> (applied.args[2].exists /\ applied.args[3].cleanup = "ok")
        /\ applied.result.result.status \in {"success", "failed"}

\* C29: the audio extraction failed after the download, and the temporary
\* directory was replaced.
C29_Witness ==
    /\ VideoProcessed
    /\ applied.result.calls = <<"download_video", "extract_audio">>
    /\ applied.result.result.error = "Failed to extract audio"
    /\ Replaced

\* C29: download_video raised and the temporary directory was replaced.
C29_WitnessRaised ==
    /\ VideoProcessed
    /\ applied.result.result.error = "'id'"
    /\ Replaced

\* C29: the video was transcribed and rmtree raised.
C29_WitnessKept ==
    /\ VideoProcessed
    /\ applied.result.result.status = "success"
    /\ applied.result.cleanup.logged = <<"Cleanup error">>
    /\ applied.result.cleanup.temp_dir = applied.args[2]

----------------------------------------------------------------------------
(* EmergencyAlertMonitor.check_all_feeds of                                  *)
(* src/scrapers/emergency-alert-monitor.py.  What each feed and each web     *)
(* page answers is decided by the environment.                               *)

\* self.feeds and self.web_sources, in the order of the dict literals
feeds == <<"hcpss_alerts", "weather_nws", "maryland_511">>
web_sources == <<"howard_county_alerts", "howard_county_news">>

\* the URL of each web source
WebSourceUrl(source_name) ==
    IF source_name = "howard_county_alerts"
    THEN "https://www.howardcountymd.gov/emergency-management"
    ELSE "https://www.howardcountymd.gov/news"

critical_keywords ==
    <<"emergency", "urgent", "immediate", "evacuation", "shelter", "tornado",
      "severe weather", "flash flood", "school closure", "road closure",
      "water advisory", "gas leak", "fire", "hazmat">>

\* the words scrape_web_source looks for in the titles of a news page
news_keywords == <<"emergency", "alert", "closure", "weather">>

\* any(keyword in text for keyword in keywords)
AnyKeyword(keywords, text) ==
    \E k \in 1..Len(keywords) : Contains(keywords[k], text)

\* an entry of a feed; published is how old its date is, Absent with no date
AlertEntry(id, title, summary, link, published) ==
    [id |-> id, title |-> title, summary |-> summary, link |-> link,
     published |-> published]

A_storm  == AlertEntry("a1", "Tornado warning", "Take shelter", "http://e/1", "recent")
A_fair   == AlertEntry("a2", "County fair", "Rides and food", "http://e/2", Absent)
A_old    == AlertEntry("a3", "Flash Flood watch", Absent, "http://e/3", "old")
A_nolink == AlertEntry(Absent, "Gas leak", Absent, Absent, "recent")

Alert(id, title, description, link, published, source) ==
    [id |-> id, title |-> title, description |-> description, link |-> link,
     published |-> published, source |-> source]

\* the longest feed: one entry more than parse_feed reads
ManyLen == 21

MaxAlertEntries == 20

\* what feedparser.parse and the fallback request give for a feed:
\* entries, more entries than are read, an exception of the parser, no
\* entry and a failed request, no entry and a document with one item
FeedAnswers == {"entries", "many", "raises", "empty_down", "empty_custom"}

\* what session.get gives for a web source: a failed request, a page with
\* nothing on it, a page with notices and headlines
WebAnswers == {"down", "blank", "notices"}

\* the answers of all feeds and web sources during one check
Worlds ==
    [feed : [{feeds[k] : k \in 1..Len(feeds)} -> FeedAnswers],
     web  : [{web_sources[k] : k \in 1..Len(web_sources)} -> WebAnswers]]

EntriesIn(answer) ==
    IF answer = "entries" THEN <<A_storm, A_fair, A_old, A_nolink>>
    ELSE IF answer = "many" THEN Cycle(<<A_storm, A_fair>>, ManyLen)
    ELSE <<>>

\* parse_feed_entry: the alert, or nothing (None) when
\* getattr(entry, 'id', entry.link) finds no link
parse_feed_entry(entry, source) ==
    IF entry.link = Absent
    THEN <<>>
    ELSE <<Alert(GetAttr(entry.id, entry.link),
                 GetAttr(entry.title, "Unknown Alert"),
                 GetAttr(entry.summary, ""),
                 entry.link,
                 IF entry.published = Absent THEN None ELSE entry.published,
                 source)>>

\* is_recent_alert: alerts without a date are kept
is_recent_alert(alert) == alert.published # "old"

\* is_critical_alert
is_critical_alert(alert) ==
    AnyKeyword(critical_keywords, Lower(alert.title \o " " \o alert.description))

\* parse_custom_feed on the document of the fallback request
parse_custom_feed(source) ==
    <<Alert(source \o "_item", "Road Closure on Route 29", "", "", None, source)>>

\* the loop of parse_feed over feed.entries[:20]
RECURSIVE EntryLoop(_, _)
EntryLoop(entries, feed_name) ==
    IF Len(entries) = 0 THEN <<>>
    ELSE SelectSeq(parse_feed_entry(Head(entries), feed_name), is_recent_alert)
         \o EntryLoop(Tail(entries), feed_name)

\* what a step of check_all_feeds gets back: parse_feed and
\* scrape_web_source catch every exception themselves and return their list
Returns(alerts) == [raised |-> FALSE, error |-> "", alerts |-> alerts]

parse_feed(answer, feed_name) ==
    IF answer \in {"raises", "empty_down"} THEN Returns(<<>>)
    ELSE IF answer = "empty_custom" THEN Returns(parse_custom_feed(feed_name))
    ELSE Returns(EntryLoop(Take(EntriesIn(answer), MaxAlertEntries), feed_name))

\* the texts of the notices and the headlines of a page
NoticesOn(answer) ==
    IF answer = "notices"
    THEN <<[text |-> "Emergency shelter open at the high school",
            href |-> "/news/shelter"],
           [text |-> "Weather update for the weekend", href |-> "/news/weather"],
           [text |-> "Library hours", href |-> "/news/library"]>>
    ELSE <<>>

\* the alert scrape_web_source makes of a notice of an emergency page
EmergencyAlert(notice, url, source_name) ==
    IF Len(notice.text) > 20 /\ AnyKeyword(critical_keywords, Lower(notice.text))
    THEN <<Alert(source_name \o "_" \o notice.text, notice.text,
                 Take(notice.text, SummaryLimit), url, "recent", source_name)>>
    ELSE <<>>

\* the alert scrape_web_source makes of a headline of a news page
NewsAlert(notice, url, source_name) ==
    IF AnyKeyword(news_keywords, Lower(notice.text))
    THEN <<Alert(source_name \o "_" \o notice.text, notice.text, notice.text,
                 resolve_url(notice.href, url), "recent", source_name)>>
    ELSE <<>>

\* scrape_web_source: the branch is chosen by the name of the source
scrape_web_source(answer, url, source_name) ==
    IF answer = "down" THEN Returns(<<>>)
    ELSE IF Contains("emergency", source_name)
    THEN Returns(Flat([k \in 1..Len(NoticesOn(answer)) |->
                          EmergencyAlert(NoticesOn(answer)[k], url, source_name)]))
    ELSE IF Contains("news", source_name)
    THEN Returns(Flat([k \in 1..Len(NoticesOn(answer)) |->
                          NewsAlert(NoticesOn(answer)[k], url, source_name)]))
    ELSE Returns(<<>>)

\* dict[key] = value
Put(dict, key, value) ==
    [k \in (DOMAIN dict) \cup {key} |-> IF k = key THEN value ELSE dict[k]]

\* all_alerts, critical_alerts and feed_statuses before the first loop
NoAlerts == [all_alerts |-> <<>>, critical_alerts |-> <<>>, feed_statuses |-> <<>>]

\* one pass of either loop of check_all_feeds
Checked(check, name, out) ==
    IF out.raised
    THEN [check EXCEPT
            !.feed_statuses = Put(@, name, [status |-> "error", error |-> out.error,
                                            alerts_found |-> Absent,
                                            critical_found |-> Absent])]
    ELSE [all_alerts |-> check.all_alerts \o out.alerts,
          critical_alerts |-> check.critical_alerts
                                \o SelectSeq(out.alerts, is_critical_alert),
          feed_statuses |->
              Put(check.feed_statuses, name,
                  [status |-> "success", error |-> Absent,
                   alerts_found |-> Len(out.alerts),
                   critical_found |-> Len(SelectSeq(out.alerts, is_critical_alert))])]

\* FeedLoop that gives up at the first feed that cannot be read
RECURSIVE FeedLoop_StopAtFailure(_, _, _)
FeedLoop_StopAtFailure(check, names, world) ==
    IF Len(names) = 0 \/ world.feed[Head(names)] \in {"raises", "empty_down"}
    THEN check
    ELSE FeedLoop_StopAtFailure(
             Checked(check, Head(names), parse_feed(world.feed[Head(names)], Head(names))),
             Tail(names), world)

\* for feed_name, feed_url in self.feeds.items()
RECURSIVE FeedLoop(_, _, _)
FeedLoop(check, names, world) ==
    IF Len(names) = 0 THEN check
    ELSE FeedLoop(Checked(check, Head(names),
                          parse_feed(world.feed[Head(names)], Head(names))),
                  Tail(names), world)

\* for source_name, source_url in self.web_sources.items()
RECURSIVE WebLoop(_, _, _)
WebLoop(check, names, world) ==
    IF Len(names) = 0 THEN check
    ELSE WebLoop(Checked(check, Head(names),
                         scrape_web_source(world.web[Head(names)],
                                           WebSourceUrl(Head(names)), Head(names))),
                 Tail(names), world)

check_all_feeds(world) ==
    WebLoop(FeedLoop(NoAlerts, feeds, world), web_sources, world)

\* alerts_data = self.check_all_feeds(): run_monitor checks once
Apply_check_all_feeds(world) ==
    /\ applied = NoCall
    /\ applied' = Applied("check_all_feeds", <<world>>, check_all_feeds(world))
    /\ UNCHANGED <<config, pc, source_ids, sources_to_scrape, idx, results,
                   fetch_log, debug_calls, earlier, load_status>>

MonitorNext == \E world \in Worlds : Apply_check_all_feeds(world)

MonitorSpec == HelperInit /\ [][MonitorNext]_vars

\* check_all_feeds has returned
FeedsChecked == applied.op = "check_all_feeds"

\* the configured feeds and web sources
Monitored == feeds \o web_sources

\* the sum of alerts_found over the entries of the names with status success
RECURSIVE SumAlertsFound(_, _)
SumAlertsFound(names, statuses) ==
    IF Len(names) = 0 THEN 0
    ELSE (IF Head(names) \in DOMAIN statuses
             /\ statuses[Head(names)].status = "success"
          THEN statuses[Head(names)].alerts_found ELSE 0)
         + SumAlertsFound(Tail(names), statuses)

\* C30: when check_all_feeds returns, whichever feeds and web sources
\* failed, feed_statuses has one entry for each configured feed and web
\* source and no other, each with status success or error; all_alerts is as
\* long as the sum of alerts_found over the success entries; and every alert
\* of critical_alerts is in all_alerts.
C30_CheckBookkeeping ==
    FeedsChecked =>
        /\ DOMAIN applied.result.feed_statuses
              = {Monitored[k] : k \in 1..Len(Monitored)}
        /\ Cardinality(DOMAIN applied.result.feed_statuses)
              = Len(feeds) + Len(web_sources)
        /\ \A name \in DOMAIN applied.result.feed_statuses :
              applied.result.feed_statuses[name].status \in {"success", "error"}
        /\ Len(applied.result.all_alerts)
              = SumAlertsFound(Monitored, applied.result.feed_statuses)
        /\ \A k \in 1..Len(applied.result.critical_alerts) :
              InSeq(applied.result.critical_alerts[k], applied.result.all_alerts)

\* C30: the first feed could not be parsed and a later feed and the news
\* page gave alerts, some of them critical.
C30_Witness ==
    /\ FeedsChecked
    /\ applied.args[1].feed["hcpss_alerts"] = "raises"
    /\ applied.args[1].feed["weather_nws"] = "empty_down"
    /\ applied.args[1].web["howard_county_alerts"] = "down"
    /\ applied.result.feed_statuses["maryland_511"].alerts_found = 2
    /\ applied.result.feed_statuses["howard_county_news"].alerts_found = 2
    /\ Len(applied.result.all_alerts) = 4
    /\ Len(applied.result.critical_alerts) = 2

\* C30: a feed of more than 20 entries was read.
C30_WitnessMany ==
    /\ FeedsChecked
    /\ applied.result.feed_statuses["hcpss_alerts"].alerts_found = MaxAlertEntries
    /\ applied.result.feed_statuses["hcpss_alerts"].critical_found = 10

HelperNext ==
    \/ \E ics_url \in IcsUrls : Apply_download_ics(ics_url)
    \/ \E i \in 1..MaxSources, html_content \in Snapshots, disk \in Disks :
            Apply_save_debug_html(Source(i, NoShape), html_content, disk)
    \/ \E base \in Bases, url \in Refs : Apply_urljoin(base, url)
    \/ \E link \in Refs, base_url \in Bases : Apply_resolve_url(link, base_url)

HelperSpec == HelperInit /\ [][HelperNext]_vars

====
